---- MODULE Spec2Model ----
(***************************************************************************)
(* runasuser: launch a command as the logged-in interactive user.          *)
(*                                                                         *)
(* Two programs are modelled, one per platform:                            *)
(*   src/src/macos/main.c    main, drop_privileges, setup_environment,     *)
(*                           handle_session  (credential-syscall platform) *)
(*   src/src/windows/main.c  wmain, find_active_session,                   *)
(*                           get_session_username, build_command_line      *)
(*                           (token-based platform)                        *)
(* Strings are sequences of one-character strings; argv is a sequence of   *)
(* such strings whose TLA+ index k+1 is the C index k.                     *)
(***************************************************************************)
EXTENDS Integers, Sequences, FiniteSets, TLC

(***************************************************************************)
(* Bounds of the model.                                                    *)
(***************************************************************************)
MaxArgs == 3        \* tokens after argv[0] on the command line of a run
MaxSessions == 2    \* sessions in the OS session table
MaxEintr == 1       \* interruptions of one wait
MaxArgc == 2        \* codec: arguments handed to build_command_line
MaxChars == 4       \* codec: characters in all arguments together

(***************************************************************************)
(* Exit codes (macos/main.c:28-32, windows/main.c:32-37).                  *)
(***************************************************************************)
EXIT_GENERAL == 1
EXIT_NO_SESSION == 2
EXIT_PRIV_DROP == 3
\* a launch failure reported with the general-failure code
EXIT_EXEC_FAIL_AsGeneral == EXIT_GENERAL
EXIT_EXEC_FAIL == 4
\* a usage error reported with the general-failure code
EXIT_USAGE_AsGeneral == EXIT_GENERAL
EXIT_USAGE == 5
EXIT_SUCCESS_CODE == 0
EXIT_GENERAL_FAILURE == 1
EXIT_TOKEN_FAILURE == 3
EXIT_PROCESS_FAILURE == 4
EXIT_USAGE_ERROR == 5

\* rc while the program has not returned; <<code>> once it has
NoExit == <<>>

(***************************************************************************)
(* Characters and strings.                                                 *)
(***************************************************************************)
BS == "\\"
DQ == "\""
SP == " "
TAB == "\t"

\* n copies of character c
RECURSIVE Rep(_, _)
Rep(c, n) == IF n <= 0 THEN <<>> ELSE <<c>> \o Rep(c, n - 1)

(***************************************************************************)
(* build_command_line (windows/main.c:141-243).                            *)
(***************************************************************************)
\* lines 195-206 (and 147-158): does the argument need quoting
needsQuoting(arg) ==
    IF Len(arg) = 0 THEN TRUE
    ELSE \E k \in 1..Len(arg) : arg[k] = SP \/ arg[k] = TAB \/ arg[k] = DQ

\* lines 208-230: the quoted form of one argument, written left to right;
\* p is the read position, numBackslashes the running count, out the
\* characters written so far (the opening quote included)
RECURSIVE QuotedFrom(_, _, _, _)
QuotedFrom(arg, p, numBackslashes, out) ==
    IF p > Len(arg)
    THEN out \o Rep(BS, numBackslashes) \o <<DQ>>
    ELSE IF arg[p] = BS
         THEN QuotedFrom(arg, p + 1, numBackslashes + 1, out \o <<BS>>)
         ELSE IF arg[p] = DQ
              THEN QuotedFrom(arg, p + 1, 0,
                              out \o Rep(BS, numBackslashes) \o <<BS, DQ>>)
              ELSE QuotedFrom(arg, p + 1, 0, out \o <<arg[p]>>)

\* an encoding that quotes every argument
EncodeArg_AlwaysQuoted(arg) == QuotedFrom(arg, 1, 0, <<DQ>>)

\* lines 194-235: what the second pass writes for one argument
EncodeArg(arg) ==
    IF needsQuoting(arg) THEN QuotedFrom(arg, 1, 0, <<DQ>>) ELSE arg

\* lines 193-239: the second pass over arguments i..argc (1-based), with the
\* separator written after every argument but the last
RECURSIVE SecondPass(_, _)
SecondPass(args, i) ==
    IF i > Len(args) THEN <<>>
    ELSE EncodeArg(args[i])
         \o (IF i < Len(args) THEN <<SP>> ELSE <<>>)
         \o SecondPass(args, i + 1)

\* the string build_command_line returns (without the terminating null)
build_command_line(args) == SecondPass(args, 1)

\* lines 161-176: the length the first pass counts for a quoted argument;
\* p is the read position, numBackslashes the running count, len the count
\* so far (the two surrounding quotes included)
RECURSIVE QuotedLenFrom(_, _, _, _)
QuotedLenFrom(arg, p, numBackslashes, len) ==
    IF p > Len(arg)
    THEN len + numBackslashes
    ELSE IF arg[p] = BS
         THEN QuotedLenFrom(arg, p + 1, numBackslashes + 1, len + 1)
         ELSE IF arg[p] = DQ
              THEN QuotedLenFrom(arg, p + 1, 0, len + numBackslashes + 1 + 1)
              ELSE QuotedLenFrom(arg, p + 1, 0, len + 1)

\* a first pass that counts every argument as unquoted
ArgLen_Unquoted(arg) == Len(arg)

\* lines 146-179: what the first pass adds to totalLen for one argument
ArgLen(arg) ==
    IF needsQuoting(arg) THEN QuotedLenFrom(arg, 1, 0, 2) ELSE Len(arg)

\* lines 145-183: the first pass over arguments k..argc (1-based), with one
\* position for the separator after every argument but the last
RECURSIVE FirstPass(_, _)
FirstPass(vec, k) ==
    IF k > Len(vec) THEN 0
    ELSE ArgLen(vec[k]) + (IF k < Len(vec) THEN 1 ELSE 0)
         + FirstPass(vec, k + 1)

\* lines 144-185: the buffer length, the null terminator included
totalLen(vec) == FirstPass(vec, 1) + 1

(***************************************************************************)
(* The platform's argument splitting, CommandLineToArgvW, whose rules the  *)
(* comment above build_command_line (windows/main.c:129-140) names:        *)
(*   2n backslashes + quote   -> n backslashes, the quote toggles quoting  *)
(*   2n+1 backslashes + quote -> n backslashes and a literal quote         *)
(*   other backslashes are literal; space and tab outside quotes separate. *)
(* The first token is the program name and is read by a different rule:    *)
(* if it starts with a quote it runs to the next quote, otherwise to the   *)
(* next space or tab, and backslashes in it are never special.             *)
(***************************************************************************)
\* number of consecutive backslashes of s from position i on
RECURSIVE BackslashRun(_, _)
BackslashRun(s, i) ==
    IF i > Len(s) \/ s[i] # BS THEN 0 ELSE 1 + BackslashRun(s, i + 1)

\* first position >= i of s holding a character of set cs, Len(s)+1 if none
RECURSIVE FindChar(_, _, _)
FindChar(s, i, cs) ==
    IF i > Len(s) \/ s[i] \in cs THEN i ELSE FindChar(s, i + 1, cs)

\* the arguments after the program name; cur is the argument being read,
\* started says that one is being read, inQ that a quote is open
RECURSIVE SplitArgs(_, _, _, _, _, _)
SplitArgs(s, i, cur, started, inQ, out) ==
    IF i > Len(s)
    THEN IF started THEN Append(out, cur) ELSE out
    ELSE IF (s[i] = SP \/ s[i] = TAB) /\ ~inQ
         THEN IF started
              THEN SplitArgs(s, i + 1, <<>>, FALSE, FALSE, Append(out, cur))
              ELSE SplitArgs(s, i + 1, <<>>, FALSE, FALSE, out)
         ELSE IF s[i] = BS
              THEN LET n == BackslashRun(s, i)
                       j == i + n
                   IN  IF j <= Len(s) /\ s[j] = DQ
                       THEN IF n % 2 = 1
                            THEN SplitArgs(s, j + 1,
                                           cur \o Rep(BS, n \div 2) \o <<DQ>>,
                                           TRUE, inQ, out)
                            ELSE SplitArgs(s, j + 1, cur \o Rep(BS, n \div 2),
                                           TRUE, ~inQ, out)
                       ELSE SplitArgs(s, j, cur \o Rep(BS, n), TRUE, inQ, out)
              ELSE IF s[i] = DQ
                   THEN SplitArgs(s, i + 1, cur, TRUE, ~inQ, out)
                   ELSE SplitArgs(s, i + 1, cur \o <<s[i]>>, TRUE, inQ, out)

\* the same rule applied to every token, the first one included
SplitUniform(s) == SplitArgs(s, 1, <<>>, FALSE, FALSE, <<>>)

\* CommandLineToArgvW: the program name by its own rule, then the arguments
CommandLineToArgvW(s) ==
    IF Len(s) = 0 THEN <<>>
    ELSE IF s[1] = DQ
         THEN LET q == FindChar(s, 2, {DQ})
              IN  SplitArgs(s, q + 1, <<>>, FALSE, FALSE,
                            <<SubSeq(s, 2, q - 1)>>)
         ELSE LET e == FindChar(s, 1, {SP, TAB})
              IN  SplitArgs(s, e, <<>>, FALSE, FALSE, <<SubSeq(s, 1, e - 1)>>)

(***************************************************************************)
(* State.                                                                  *)
(***************************************************************************)
VARIABLES
    platform,         \* "macos", "windows", or "codec" (build_command_line alone)
    argv,             \* the argument vector, argv[0] included
    pc,               \* position of the program
    rc,               \* the program's exit code, NoExit until it returns
    calls,            \* the OS calls made so far, in order, with their outcome
    isElevated,       \* the caller is root / the system service account
    \* macos/main.c
    flag_wait, flag_session, argi,
    cf_user,          \* the console user's name, NULL if the query gave none
    uid,              \* the console user's uid, as the console query gave it
    cred,             \* the process's credentials: uid, gid, groups
    child,            \* the forked child: state and wait status
    eintr,            \* interruptions of the current wait so far
    args,             \* handle_session: the argument vector built for launchctl
    exec_argv,        \* the argument vector handed to execvp, <<>> before
    environ,          \* the process's environment
    twin_environ,     \* the environment of the same run started by a caller
                      \* with another environment
    \* windows/main.c
    waitForChild, sessionSpecified, targetSessionId, i, cmdArgStart,
    exitCode, hToken, hDupToken, lpEnvironment, cmdLine, sessionUser,
    profileDir, pi, pSessions,
    lastError,        \* GetLastError() after the last failed call
    process,          \* the created process: state and how it ended
    sessions,         \* the OS session table, in enumeration order
    consoleSession,   \* the OS's console session id, NO_CONSOLE if none
    acquired, released \* per resource: times acquired, times released

parseVars == <<flag_wait, flag_session, argi,
               waitForChild, sessionSpecified, targetSessionId, i, cmdArgStart>>
macVars == <<cf_user, uid, cred, child, eintr>>
launchVars == <<args, exec_argv, environ, twin_environ>>
winVars == <<exitCode, hToken, hDupToken, lpEnvironment, cmdLine, sessionUser,
             profileDir, pi, pSessions, lastError, process, acquired,
             released>>
worldVars == <<sessions, consoleSession>>
vars == <<platform, argv, pc, rc, calls, isElevated, parseVars, macVars,
          launchVars, winVars, worldVars>>

(***************************************************************************)
(* Command-line tokens of the runs.                                        *)
(***************************************************************************)
T_wait == <<"-", "-", "w", "a", "i", "t">>
T_session == <<"-", "-", "s", "e", "s", "s", "i", "o", "n">>
T_help == <<"-", "-", "h", "e", "l", "p">>
T_h == <<"-", "h">>
\* a token that is no flag: it serves as command, as argument and as session id
T_two == <<"2">>
T_self == <<"r">>
Tokens == {T_wait, T_session, T_help, T_h, T_two}

\* all sequences over S of length at most n
RECURSIVE SeqsUpTo(_, _)
SeqsUpTo(S, n) ==
    IF n = 0 THEN {<<>>}
    ELSE LET shorter == SeqsUpTo(S, n - 1)
         IN  shorter \cup {Append(s, x) : s \in shorter, x \in S}

ArgVectors == {<<T_self>> \o t : t \in SeqsUpTo(Tokens, MaxArgs)}

argc == Len(argv)
\* argv[k] of the C code
Arg(k) == argv[k + 1]

Call(op, ok) == [op |-> op, ok |-> ok]
Called(op) == \E k \in 1..Len(calls) : calls[k].op = op
CalledWith(op, ok) == \E k \in 1..Len(calls) : calls[k] = Call(op, ok)

NULL == "NULL"
\* DWORD values are written as the 32-bit two's-complement integer with the
\* same bits: 0xFFFFFFFF (windows/main.c:82) is -1
NO_CONSOLE == -1
Resources == {"hToken", "hDupToken", "lpEnvironment", "hProcess", "hThread",
              "cmdLine", "sessionUser", "pSessions"}
NoChild == [state |-> "none", kind |-> "none", val |-> 0]

InitCommon ==
    /\ rc = NoExit
    /\ calls = <<>>
    /\ flag_wait = FALSE /\ flag_session = FALSE /\ argi = 1
    /\ cf_user = NULL /\ uid = 0
    /\ child = NoChild
    /\ eintr = 0
    /\ args = <<>> /\ exec_argv = <<>>
    /\ waitForChild = FALSE /\ sessionSpecified = FALSE
    /\ targetSessionId = 0 /\ i = 1 /\ cmdArgStart = 0
    /\ exitCode = EXIT_GENERAL_FAILURE
    /\ hToken = NULL /\ hDupToken = NULL /\ lpEnvironment = NULL
    /\ cmdLine = <<>> /\ sessionUser = NULL /\ profileDir = <<>>
    /\ pi = [hProcess |-> NULL, hThread |-> NULL]
    /\ pSessions = NULL
    /\ lastError = "ERROR_SUCCESS"
    /\ process = [state |-> "none", cause |-> "none", code |-> 0]
    /\ sessions = <<>> /\ consoleSession = NO_CONSOLE
    /\ acquired = [r \in Resources |-> 0]
    /\ released = [r \in Resources |-> 0]

Return(code) == /\ rc' = <<code>>
                /\ pc' = "done"

(***************************************************************************)
(* macos/main.c: main.                                                     *)
(***************************************************************************)
ROOT == 0
\* the uid of an ordinary (non-root) user
USER_UID == 500 + 1
\* what SCDynamicStoreCopyConsoleUser can report: no user (NULL), the login
\* window, an ordinary user, or root logged in at the console
ConsoleUsers == {[name |-> NULL, uid |-> ROOT],
                 [name |-> "loginwindow", uid |-> ROOT],
                 [name |-> "alice", uid |-> USER_UID],
                 [name |-> "root", uid |-> ROOT]}
\* wait statuses of a terminated child: exit statuses (8 bits wide) and signal
\* numbers (1 to 31), the ends of both ranges and the values where 128 +
\* signal meets an exit status among them
ExitStatuses == (0..7) \cup {127, 128, 129, 137, 143, 159, 255}
Signals == {1, 9, 15, 31}
WaitStatuses == {[kind |-> "exited", val |-> k] : k \in ExitStatuses}
                \cup {[kind |-> "signaled", val |-> sg] : sg \in Signals}

\* the passwd entry getpwuid gives for a uid (line 285)
Passwd(u) ==
    IF u = ROOT
    THEN [pw_name |-> "root", pw_uid |-> u, pw_gid |-> u,
          pw_dir |-> "/var/root", pw_shell |-> "/bin/sh"]
    ELSE [pw_name |-> "alice", pw_uid |-> u, pw_gid |-> u,
          pw_dir |-> "/Users/alice", pw_shell |-> "/bin/zsh"]

DEFAULT_PATH == "/usr/local/bin:/usr/bin:/bin:/usr/sbin:/sbin"

\* an environment maps each variable name to its value, UNSET if it has none;
\* TMPDIR stands for the variables setup_environment does not name
UNSET == "unset"
EnvNames == {"HOME", "USER", "LOGNAME", "SHELL", "PATH", "TMPDIR"}
\* environments of the elevated caller
CallerEnvs ==
    {[n \in EnvNames |->
        CASE n = "HOME" -> "/var/root"
          [] n = "USER" -> "root"
          [] n = "LOGNAME" -> "root"
          [] n = "SHELL" -> "/bin/sh"
          [] n = "PATH" -> "/opt/admin/bin:/usr/bin:/bin"
          [] n = "TMPDIR" -> tmp] : tmp \in {UNSET, "/var/root/tmp"}}

\* setenv(name, value, 1)
setenv(env, name, value) == [env EXCEPT ![name] = value]

\* lines 211-218: setup_environment(pw) applied to an environment
setup_environment(env, pw) ==
    LET e1 == setenv(env, "HOME", pw.pw_dir)
        e2 == setenv(e1, "USER", pw.pw_name)
        e3 == setenv(e2, "LOGNAME", pw.pw_name)
        e4 == setenv(e3, "SHELL", pw.pw_shell)
    IN  setenv(e4, "PATH", DEFAULT_PATH)

InitMac ==
    /\ platform = "macos"
    /\ pc = "parse"
    /\ argv \in ArgVectors
    /\ isElevated \in BOOLEAN
    /\ environ \in CallerEnvs
    /\ twin_environ \in CallerEnvs
    /\ InitCommon
    /\ cred = [uid |-> IF isElevated THEN ROOT ELSE USER_UID,
               gid |-> IF isElevated THEN ROOT ELSE USER_UID,
               groups |-> IF isElevated THEN ROOT ELSE USER_UID]

macUnchanged == UNCHANGED <<platform, argv, isElevated, winVars, worldVars,
                            waitForChild, sessionSpecified, targetSessionId,
                            i, cmdArgStart>>

\* lines 227-240: one iteration of the flag loop
M_ParseWait ==
    /\ platform = "macos" /\ pc = "parse"
    /\ argi < argc /\ Arg(argi) = T_wait
    /\ flag_wait' = TRUE
    /\ argi' = argi + 1
    /\ UNCHANGED <<pc, rc, calls, flag_session, macVars>>
    /\ macUnchanged /\ UNCHANGED launchVars

M_ParseSession ==
    /\ platform = "macos" /\ pc = "parse"
    /\ argi < argc /\ Arg(argi) = T_session
    /\ flag_session' = TRUE
    /\ argi' = argi + 1
    /\ UNCHANGED <<pc, rc, calls, flag_wait, macVars>>
    /\ macUnchanged /\ UNCHANGED launchVars

M_ParseHelp ==
    /\ platform = "macos" /\ pc = "parse"
    /\ argi < argc /\ (Arg(argi) = T_help \/ Arg(argi) = T_h)
    /\ Return(0)
    /\ UNCHANGED <<calls, flag_wait, flag_session, argi, macVars>>
    /\ macUnchanged /\ UNCHANGED launchVars

\* lines 237-248: the loop ends at the first non-flag or at the end of argv
M_ParseEnd ==
    /\ platform = "macos" /\ pc = "parse"
    /\ \/ argi >= argc
       \/ /\ argi < argc
          /\ Arg(argi) \notin {T_wait, T_session, T_help, T_h}
    /\ IF argi >= argc
       THEN Return(EXIT_USAGE)
       ELSE pc' = "getuid" /\ rc' = rc
    /\ UNCHANGED <<calls, flag_wait, flag_session, argi, macVars>>
    /\ macUnchanged /\ UNCHANGED launchVars

\* a command vector that starts after argv[0]
cmd_argv_FromFirstToken == SubSeq(argv, 2, argc)

\* cmd_argv, cmd_argc of lines 247-248
cmd_argv == SubSeq(argv, argi + 1, argc)
cmd_argc == argc - argi

\* lines 226-248 as one function of the argument vector av: the flags and
\* the index of the command that main obtains from it; k is argi
RECURSIVE ParseFrom(_, _, _, _)
ParseFrom(av, k, wait, session) ==
    IF k >= Len(av)
    THEN [help |-> FALSE, flag_wait |-> wait, flag_session |-> session,
          argi |-> k]
    ELSE IF av[k + 1] = T_wait THEN ParseFrom(av, k + 1, TRUE, session)
    ELSE IF av[k + 1] = T_session THEN ParseFrom(av, k + 1, wait, TRUE)
    ELSE IF av[k + 1] = T_help \/ av[k + 1] = T_h
    THEN [help |-> TRUE, flag_wait |-> wait, flag_session |-> session,
          argi |-> k]
    ELSE [help |-> FALSE, flag_wait |-> wait, flag_session |-> session,
          argi |-> k]

ParseFlags(av) == ParseFrom(av, 1, FALSE, FALSE)

\* lines 250-254: must be root
M_CheckRoot ==
    /\ platform = "macos" /\ pc = "getuid"
    /\ calls' = Append(calls, Call("getuid", TRUE))
    /\ IF cred.uid # 0
       THEN Return(EXIT_GENERAL)
       ELSE pc' = "console" /\ rc' = rc
    /\ UNCHANGED <<flag_wait, flag_session, argi, macVars>>
    /\ macUnchanged /\ UNCHANGED launchVars

\* a check that forgets the login-window sentinel
NoInteractiveUser_NoSentinel(name, ok) == ~ok

\* line 273: the query's answer means "nobody is logged in"; ok is the result
\* of CFStringGetCString
NoInteractiveUser(name, ok) == ~ok \/ name = "loginwindow"

\* lines 256-282: the console user, the login-window check, and the branch
\* to handle_session
M_ConsoleUser ==
    /\ platform = "macos" /\ pc = "console"
    /\ \E cu \in ConsoleUsers, ok \in BOOLEAN :
          /\ calls' = Append(calls,
                  Call("SCDynamicStoreCopyConsoleUser", cu.name # NULL))
          /\ cf_user' = cu.name
          /\ uid' = cu.uid
          /\ IF cu.name = NULL
             THEN Return(EXIT_NO_SESSION)
             ELSE IF NoInteractiveUser(cu.name, ok)
                  THEN Return(EXIT_NO_SESSION)
                  ELSE /\ pc' = IF flag_session THEN "self_path" ELSE "getpwuid"
                       /\ rc' = rc
    /\ UNCHANGED <<flag_wait, flag_session, argi, cred, child, eintr>>
    /\ macUnchanged /\ UNCHANGED launchVars

\* lines 284-290: getpwuid
M_GetPwuid ==
    /\ platform = "macos" /\ pc = "getpwuid"
    /\ \E ok \in BOOLEAN :
          /\ calls' = Append(calls, Call("getpwuid", ok))
          /\ IF ok THEN pc' = "initgroups" /\ rc' = rc
                   ELSE Return(EXIT_GENERAL)
    /\ UNCHANGED <<flag_wait, flag_session, argi, macVars>>
    /\ macUnchanged /\ UNCHANGED launchVars

(***************************************************************************)
(* drop_privileges (lines 173-206), called from main line 293: a step that *)
(* fails makes drop_privileges return -1 and main return EXIT_PRIV_DROP.   *)
(***************************************************************************)
\* a drop_privileges that sets the uid before the gid
AfterDropStep_UidFirst(step) ==
    CASE step = "initgroups" -> "setuid"
      [] step = "setuid" -> "setgid"
      [] step = "setgid" -> "verify"
      [] step = "verify" -> "setenv"

\* where the program goes after a step of drop_privileges that succeeded
AfterDropStep(step) ==
    CASE step = "initgroups" -> "setgid"
      [] step = "setgid" -> "setuid"
      [] step = "setuid" -> "verify"
      [] step = "verify" -> "setenv"

\* the exit code main returns when drop_privileges returned nonzero
DropFailed == Return(EXIT_PRIV_DROP)

\* lines 176-179
M_Initgroups ==
    /\ platform = "macos" /\ pc = "initgroups"
    /\ \E ok \in BOOLEAN :
          /\ calls' = Append(calls, Call("initgroups", ok))
          /\ IF ok
             THEN /\ cred' = [cred EXCEPT !.groups = uid]
                  /\ pc' = AfterDropStep("initgroups") /\ rc' = rc
             ELSE cred' = cred /\ DropFailed
    /\ UNCHANGED <<flag_wait, flag_session, argi, cf_user, uid, child, eintr>>
    /\ macUnchanged /\ UNCHANGED launchVars

\* lines 182-186
M_Setgid ==
    /\ platform = "macos" /\ pc = "setgid"
    /\ \E ok \in BOOLEAN :
          /\ calls' = Append(calls, Call("setgid", ok))
          /\ IF ok
             THEN /\ cred' = [cred EXCEPT !.gid = uid]
                  /\ pc' = AfterDropStep("setgid") /\ rc' = rc
             ELSE cred' = cred /\ DropFailed
    /\ UNCHANGED <<flag_wait, flag_session, argi, cf_user, uid, child, eintr>>
    /\ macUnchanged /\ UNCHANGED launchVars

\* lines 189-193
M_Setuid ==
    /\ platform = "macos" /\ pc = "setuid"
    /\ \E ok \in BOOLEAN :
          /\ calls' = Append(calls, Call("setuid", ok))
          /\ IF ok
             THEN /\ cred' = [cred EXCEPT !.uid = uid]
                  /\ pc' = AfterDropStep("setuid") /\ rc' = rc
             ELSE cred' = cred /\ DropFailed
    /\ UNCHANGED <<flag_wait, flag_session, argi, cf_user, uid, child, eintr>>
    /\ macUnchanged /\ UNCHANGED launchVars

\* a kernel that never grants setuid(0)
SetuidRootGranted_Never == FALSE

\* the kernel's answer to setuid(0): granted to a process whose uid is 0
SetuidRootGranted == cred.uid = ROOT

\* a verification whose result is ignored
VerifyRejects_Ignored(regained) == FALSE

\* lines 199-203: regaining root must fail; drop_privileges fails if it
\* succeeds
VerifyRejects(regained) == regained

M_VerifyNoRoot ==
    /\ platform = "macos" /\ pc = "verify"
    /\ LET regained == SetuidRootGranted
       IN  /\ calls' = Append(calls, Call("setuid(0)", regained))
           /\ IF VerifyRejects(regained)
              THEN DropFailed
              ELSE pc' = AfterDropStep("verify") /\ rc' = rc
    /\ UNCHANGED <<flag_wait, flag_session, argi, macVars>>
    /\ macUnchanged /\ UNCHANGED launchVars

\* a main that forks whatever flag_wait is
LaunchStep_AlwaysFork(wait) == "fork"

\* line 300: fork and wait under --wait, else replace the process image
LaunchStep(wait) == IF wait THEN "fork" ELSE "exec"

\* lines 211-218 and 297-300: setup_environment, then the branch on --wait
M_SetupEnvironment ==
    /\ platform = "macos" /\ pc = "setenv"
    /\ calls' = Append(calls, Call("setenv", TRUE))
    /\ environ' = setup_environment(environ, Passwd(uid))
    /\ twin_environ' = setup_environment(twin_environ, Passwd(uid))
    /\ pc' = LaunchStep(flag_wait)
    /\ UNCHANGED <<rc, flag_wait, flag_session, argi, macVars, args, exec_argv>>
    /\ macUnchanged

(***************************************************************************)
(* main, lines 299-338: launching the command.                             *)
(***************************************************************************)
\* a mapping that keeps only seven bits of the child's exit status
MainExitOf_SevenBits(st) ==
    IF st.kind = "exited" THEN st.val % 128
    ELSE IF st.kind = "signaled" THEN 128 + st.val
    ELSE EXIT_GENERAL

\* a mapping that returns the signal number itself
MainExitOf_RawSignal(st) ==
    IF st.kind = "exited" THEN st.val
    ELSE IF st.kind = "signaled" THEN st.val
    ELSE EXIT_GENERAL

\* lines 325-332: the exit code for a wait status
MainExitOf(st) ==
    IF st.kind = "exited" THEN st.val
    ELSE IF st.kind = "signaled" THEN 128 + st.val
    ELSE EXIT_GENERAL

\* lines 302-306: fork
M_Fork ==
    /\ platform = "macos" /\ pc = "fork"
    /\ \E ok \in BOOLEAN :
          /\ calls' = Append(calls, Call("fork", ok))
          /\ IF ok
             THEN /\ child' = [NoChild EXCEPT !.state = "forked"]
                  /\ pc' = "wait" /\ rc' = rc
             ELSE child' = child /\ Return(EXIT_EXEC_FAIL)
    /\ UNCHANGED <<flag_wait, flag_session, argi, cf_user, uid, cred, eintr>>
    /\ macUnchanged /\ UNCHANGED launchVars

\* lines 308-314, in the child: execvp, and _exit(EXIT_EXEC_FAIL) if it
\* returns
M_ChildExec ==
    /\ platform = "macos" /\ pc = "wait" /\ child.state = "forked"
    /\ \E ok \in BOOLEAN :
          /\ calls' = Append(calls, Call("execvp", ok))
          /\ child' = IF ok
                      THEN [child EXCEPT !.state = "running"]
                      ELSE [state |-> "terminated", kind |-> "exited",
                            val |-> EXIT_EXEC_FAIL]
    /\ exec_argv' = cmd_argv
    /\ UNCHANGED <<pc, rc, flag_wait, flag_session, argi, cf_user, uid, cred,
                   eintr, args, environ, twin_environ>>
    /\ macUnchanged

\* the running command (or helper) terminates: it exits or is killed
ChildTerminates ==
    /\ child.state = "running"
    /\ \E st \in WaitStatuses :
          child' = [state |-> "terminated", kind |-> st.kind, val |-> st.val]

M_ChildTerminate ==
    /\ platform = "macos" /\ pc = "wait"
    /\ ChildTerminates
    /\ UNCHANGED <<pc, rc, calls, flag_wait, flag_session, argi, cf_user, uid,
                   cred, eintr>>
    /\ macUnchanged /\ UNCHANGED launchVars

\* a loop that gives up on every error of waitpid
WaitErrorIsFatal_Always(err) == TRUE

\* lines 319 and 150: the loop gives up on an error that is not EINTR
WaitErrorIsFatal(err) == err # "EINTR"

\* waitpid returned -1 with errno err: the loop calls it again or the
\* program returns EXIT_GENERAL (lines 318-323, 149-154)
WaitFailed(err) ==
    /\ calls' = Append(calls, Call(IF err = "EINTR" THEN "waitpid(EINTR)"
                                                   ELSE "waitpid", FALSE))
    /\ IF WaitErrorIsFatal(err)
       THEN Return(EXIT_GENERAL)
       ELSE UNCHANGED <<pc, rc>>

\* lines 318-323: waitpid returned -1 with errno EINTR: the loop calls it
\* again
M_WaitEintr ==
    /\ platform = "macos" /\ pc = "wait"
    /\ eintr < MaxEintr
    /\ eintr' = eintr + 1
    /\ WaitFailed("EINTR")
    /\ UNCHANGED <<flag_wait, flag_session, argi, cf_user, uid, cred, child>>
    /\ macUnchanged /\ UNCHANGED launchVars

\* lines 319-322: waitpid returned -1 with another errno
M_WaitError ==
    /\ platform = "macos" /\ pc = "wait"
    /\ WaitFailed("ECHILD")
    /\ UNCHANGED <<flag_wait, flag_session, argi, macVars>>
    /\ macUnchanged /\ UNCHANGED launchVars

\* lines 318-332: waitpid returned the status of the terminated child
M_WaitReturn ==
    /\ platform = "macos" /\ pc = "wait"
    /\ child.state = "terminated"
    /\ calls' = Append(calls, Call("waitpid", TRUE))
    /\ Return(MainExitOf(child))
    /\ UNCHANGED <<flag_wait, flag_session, argi, macVars>>
    /\ macUnchanged /\ UNCHANGED launchVars

\* lines 335-338: no --wait: execvp replaces the process image, and returns
\* only when it failed
M_Exec ==
    /\ platform = "macos" /\ pc = "exec"
    /\ \E ok \in BOOLEAN :
          /\ calls' = Append(calls, Call("execvp", ok))
          /\ IF ok THEN pc' = "replaced" /\ rc' = rc
                   ELSE Return(EXIT_EXEC_FAIL)
    /\ exec_argv' = cmd_argv
    /\ UNCHANGED <<flag_wait, flag_session, argi, macVars, args, environ,
                   twin_environ>>
    /\ macUnchanged

(***************************************************************************)
(* handle_session (lines 89-161), whose result main returns (line 281).    *)
(***************************************************************************)
\* lines 156-160
SessionExitOf(st) ==
    IF st.kind = "exited" THEN st.val
    ELSE IF st.kind = "signaled" THEN 128 + st.val
    ELSE EXIT_GENERAL

\* lines 91-95: get_self_path
S_SelfPath ==
    /\ platform = "macos" /\ pc = "self_path"
    /\ \E ok \in BOOLEAN :
          /\ calls' = Append(calls, Call("get_self_path", ok))
          /\ IF ok THEN pc' = "calloc" /\ rc' = rc
                   ELSE Return(EXIT_GENERAL)
    /\ UNCHANGED <<flag_wait, flag_session, argi, macVars>>
    /\ macUnchanged /\ UNCHANGED launchVars

\* the decimal digits of n, as snprintf("%u") writes them (line 98)
DecDigits == <<"0", "1", "2", "3", "4", "5", "6", "7", "8", "9">>
RECURSIVE uid_str(_)
uid_str(n) ==
    IF n < 10 THEN <<DecDigits[n + 1]>>
    ELSE Append(uid_str(n \div 10), DecDigits[(n % 10) + 1])

L_launchctl == <<"l", "a", "u", "n", "c", "h", "c", "t", "l">>
L_asuser == <<"a", "s", "u", "s", "e", "r">>
\* what get_self_path returns when it succeeds: the resolved absolute path
\* of the executable
self_path == <<"/", "r">>

\* a vector that passes the indirection flag on
SessionArgs_KeepFlag(u, wait, cmdv) ==
    <<L_launchctl, L_asuser, uid_str(u), self_path, T_session>>
    \o (IF wait THEN <<T_wait>> ELSE <<>>) \o cmdv

\* lines 117-126: the vector handle_session builds (the NULL that ends it is
\* the end of the sequence)
SessionArgs(u, wait, cmdv) ==
    <<L_launchctl, L_asuser, uid_str(u), self_path>>
    \o (IF wait THEN <<T_wait>> ELSE <<>>) \o cmdv

\* a handle_session that supervises the helper only under --wait
AfterSessionArgs_HonoursWait(wait) == IF wait THEN "sfork" ELSE "exec"

\* line 129: handle_session forks whatever flag_wait is
AfterSessionArgs(wait) == "sfork"

\* lines 109-126: the argument vector for launchctl
S_BuildArgs ==
    /\ platform = "macos" /\ pc = "calloc"
    /\ \E ok \in BOOLEAN :
          /\ calls' = Append(calls, Call("calloc", ok))
          /\ IF ok THEN /\ args' = SessionArgs(uid, flag_wait, cmd_argv)
                        /\ pc' = AfterSessionArgs(flag_wait) /\ rc' = rc
                   ELSE args' = args /\ Return(EXIT_GENERAL)
    /\ UNCHANGED <<flag_wait, flag_session, argi, macVars, exec_argv, environ,
                   twin_environ>>
    /\ macUnchanged

\* lines 129-135
S_Fork ==
    /\ platform = "macos" /\ pc = "sfork"
    /\ \E ok \in BOOLEAN :
          /\ calls' = Append(calls, Call("fork", ok))
          /\ IF ok
             THEN /\ child' = [NoChild EXCEPT !.state = "forked"]
                  /\ pc' = "swait" /\ rc' = rc
             ELSE child' = child /\ Return(EXIT_EXEC_FAIL)
    /\ UNCHANGED <<flag_wait, flag_session, argi, cf_user, uid, cred, eintr>>
    /\ macUnchanged /\ UNCHANGED launchVars

\* lines 137-142, in the child
S_ChildExec ==
    /\ platform = "macos" /\ pc = "swait" /\ child.state = "forked"
    /\ \E ok \in BOOLEAN :
          /\ calls' = Append(calls, Call("execvp(launchctl)", ok))
          /\ child' = IF ok
                      THEN [child EXCEPT !.state = "running"]
                      ELSE [state |-> "terminated", kind |-> "exited",
                            val |-> EXIT_EXEC_FAIL]
    /\ exec_argv' = args
    /\ UNCHANGED <<pc, rc, flag_wait, flag_session, argi, cf_user, uid, cred,
                   eintr, args, environ, twin_environ>>
    /\ macUnchanged

S_ChildTerminate ==
    /\ platform = "macos" /\ pc = "swait"
    /\ ChildTerminates
    /\ UNCHANGED <<pc, rc, calls, flag_wait, flag_session, argi, cf_user, uid,
                   cred, eintr>>
    /\ macUnchanged /\ UNCHANGED launchVars

\* lines 149-154
S_WaitEintr ==
    /\ platform = "macos" /\ pc = "swait"
    /\ eintr < MaxEintr
    /\ eintr' = eintr + 1
    /\ WaitFailed("EINTR")
    /\ UNCHANGED <<flag_wait, flag_session, argi, cf_user, uid, cred, child>>
    /\ macUnchanged /\ UNCHANGED launchVars

S_WaitError ==
    /\ platform = "macos" /\ pc = "swait"
    /\ WaitFailed("ECHILD")
    /\ UNCHANGED <<flag_wait, flag_session, argi, macVars>>
    /\ macUnchanged /\ UNCHANGED launchVars

\* lines 149-160
S_WaitReturn ==
    /\ platform = "macos" /\ pc = "swait"
    /\ child.state = "terminated"
    /\ calls' = Append(calls, Call("waitpid", TRUE))
    /\ Return(SessionExitOf(child))
    /\ UNCHANGED <<flag_wait, flag_session, argi, macVars>>
    /\ macUnchanged /\ UNCHANGED launchVars

NextMac ==
    \/ M_ParseWait \/ M_ParseSession \/ M_ParseHelp \/ M_ParseEnd
    \/ M_CheckRoot \/ M_ConsoleUser \/ M_GetPwuid
    \/ M_Initgroups \/ M_Setgid \/ M_Setuid \/ M_VerifyNoRoot
    \/ M_SetupEnvironment
    \/ M_Fork \/ M_ChildExec \/ M_ChildTerminate
    \/ M_WaitEintr \/ M_WaitError \/ M_WaitReturn \/ M_Exec
    \/ S_SelfPath \/ S_BuildArgs \/ S_Fork \/ S_ChildExec \/ S_ChildTerminate
    \/ S_WaitEintr \/ S_WaitError \/ S_WaitReturn

SpecMac == InitMac /\ [][NextMac]_vars

\* waitpid is a blocking call of the kernel: once the child has terminated
\* it returns (with the status, or with an error)
SpecMacFair ==
    SpecMac /\ WF_vars(M_WaitReturn) /\ WF_vars(S_WaitReturn)

(***************************************************************************)
(* windows/main.c: wmain.                                                  *)
(***************************************************************************)
Digits == <<"0", "1", "2", "3", "4", "5", "6", "7", "8", "9">>
IsDigit(c) == \E d \in 1..10 : Digits[d] = c
DigitVal(c) == (CHOOSE d \in 1..10 : Digits[d] = c) - 1

\* wcstoul(tok, &endPtr, 10) on a token without leading blanks or sign:
\* the value of the longest prefix of digits and the number of characters
\* consumed
RECURSIVE DigitPrefix(_, _)
DigitPrefix(tok, k) ==
    IF k > Len(tok) \/ ~IsDigit(tok[k]) THEN k - 1 ELSE DigitPrefix(tok, k + 1)

RECURSIVE DecimalValue(_, _)
DecimalValue(tok, n) ==
    IF n = 0 THEN 0 ELSE 10 * DecimalValue(tok, n - 1) + DigitVal(tok[n])

wcstoul(tok) ==
    LET n == DigitPrefix(tok, 1)
    IN  [val |-> DecimalValue(tok, n), consumed |-> n]

\* the session tables the OS can hold: session k of the enumeration has id k;
\* WTSActive is a session with a user logged on, WTSConnected one without
SessionStates == {"WTSActive", "WTSConnected"}
SessionTables ==
    UNION {{[k \in 1..n |-> [SessionId |-> k, State |-> st[k]]] :
                st \in [1..n -> SessionStates]} : n \in 0..MaxSessions}
\* the console session is one of the sessions, or there is none
ConsoleChoices(tbl) == {NO_CONSOLE} \cup {tbl[k].SessionId : k \in 1..Len(tbl)}

\* how the created process can end: it exits with a code of its own, or it
\* is ended abnormally, by TerminateProcess with a code the killer chooses or
\* by an unhandled exception (0xC0000005 is -1073741819 as a DWORD)
ProcessEnds ==
    {[cause |-> "exit", code |-> x] : x \in {0, 1, 4, 7, -1}}
    \cup {[cause |-> "abnormal", code |-> x] : x \in {1, -1073741819}}

InitWin ==
    /\ platform = "windows"
    /\ pc = "parse"
    /\ argv \in ArgVectors
    /\ isElevated \in BOOLEAN
    /\ environ = [n \in EnvNames |-> UNSET]
    /\ twin_environ = [n \in EnvNames |-> UNSET]
    /\ InitCommon
    /\ cred = [uid |-> 0, gid |-> 0, groups |-> 0]

winUnchanged == UNCHANGED <<platform, argv, isElevated, macVars, launchVars,
                            flag_wait, flag_session, argi>>

Acquire(f, r) == [f EXCEPT ![r] = @ + 1]

\* lines 293-295
\* lines 291-325 as one function of the argument vector av: how the flag
\* loop of wmain ends ("help", "usage" or "command") and what it has set; k
\* is the loop's index
RECURSIVE WParseFrom(_, _, _, _, _)
WParseFrom(av, k, wait, specified, id) ==
    LET result(how) == [outcome |-> how, waitForChild |-> wait,
                        sessionSpecified |-> specified,
                        targetSessionId |-> id, cmdArgStart |-> k]
    IN  IF k >= Len(av) THEN result("usage")
        ELSE IF av[k + 1] = T_wait
             THEN WParseFrom(av, k + 1, TRUE, specified, id)
        ELSE IF av[k + 1] = T_session
             THEN IF k + 1 >= Len(av) THEN result("usage")
                  ELSE LET r == wcstoul(av[k + 2])
                       IN  IF r.consumed = 0 \/ r.consumed # Len(av[k + 2])
                           THEN result("usage")
                           ELSE WParseFrom(av, k + 2, wait, TRUE, r.val)
        ELSE IF av[k + 1] = T_help \/ av[k + 1] = T_h THEN result("help")
        ELSE result("command")

WParseFlags(av) == WParseFrom(av, 1, FALSE, FALSE, 0)

W_ParseWait ==
    /\ platform = "windows" /\ pc = "parse"
    /\ i < argc /\ Arg(i) = T_wait
    /\ waitForChild' = TRUE
    /\ i' = i + 1
    /\ UNCHANGED <<pc, rc, calls, sessionSpecified, targetSessionId,
                   cmdArgStart, winVars, worldVars>>
    /\ winUnchanged

\* lines 296-310
W_ParseSession ==
    /\ platform = "windows" /\ pc = "parse"
    /\ i < argc /\ Arg(i) = T_session
    /\ IF i + 1 >= argc
       THEN /\ Return(EXIT_USAGE_ERROR)
            /\ UNCHANGED <<targetSessionId, sessionSpecified, i>>
       ELSE LET r == wcstoul(Arg(i + 1))
            IN  IF r.consumed = 0 \/ r.consumed # Len(Arg(i + 1))
                THEN /\ Return(EXIT_USAGE_ERROR)
                     /\ UNCHANGED <<targetSessionId, sessionSpecified, i>>
                ELSE /\ targetSessionId' = r.val
                     /\ sessionSpecified' = TRUE
                     /\ i' = i + 2
                     /\ UNCHANGED <<pc, rc>>
    /\ UNCHANGED <<calls, waitForChild, cmdArgStart, winVars, worldVars>>
    /\ winUnchanged

\* lines 311-313
W_ParseHelp ==
    /\ platform = "windows" /\ pc = "parse"
    /\ i < argc /\ (Arg(i) = T_help \/ Arg(i) = T_h)
    /\ Return(EXIT_SUCCESS_CODE)
    /\ UNCHANGED <<calls, waitForChild, sessionSpecified, targetSessionId, i,
                   cmdArgStart, winVars, worldVars>>
    /\ winUnchanged

\* lines 314-329: the loop ends, cmdArgStart is set and the command is
\* required.  The OS session table is not read before this point; it is
\* drawn here and stays as it is for the rest of the run.
W_ParseEnd ==
    /\ platform = "windows" /\ pc = "parse"
    /\ \/ i >= argc
       \/ /\ i < argc
          /\ Arg(i) \notin {T_wait, T_session, T_help, T_h}
    /\ cmdArgStart' = i
    /\ IF i >= argc
       THEN Return(EXIT_USAGE_ERROR) /\ UNCHANGED worldVars
       ELSE /\ pc' = IF sessionSpecified THEN "username" ELSE "console"
            /\ rc' = rc
            /\ \E tbl \in SessionTables :
                  /\ sessions' = tbl
                  /\ consoleSession' \in ConsoleChoices(tbl)
    /\ UNCHANGED <<calls, waitForChild, sessionSpecified, targetSessionId, i,
                   winVars>>
    /\ winUnchanged

(***************************************************************************)
(* find_active_session (lines 78-107), called from wmain line 330: when it *)
(* returns FALSE wmain sets exitCode to EXIT_NO_SESSION and goes to        *)
(* cleanup.                                                                *)
(***************************************************************************)
NoSessionFound == /\ exitCode' = EXIT_NO_SESSION
                  /\ pc' = "cleanup"

\* lines 81-85
W_ConsoleQuery ==
    /\ platform = "windows" /\ pc = "console"
    /\ calls' = Append(calls, Call("WTSGetActiveConsoleSessionId",
                                   consoleSession # NO_CONSOLE))
    /\ IF consoleSession # NO_CONSOLE
       THEN targetSessionId' = consoleSession /\ pc' = "username"
       ELSE targetSessionId' = targetSessionId /\ pc' = "enumerate"
    /\ UNCHANGED <<rc, waitForChild, sessionSpecified, i, cmdArgStart,
                   winVars, worldVars>>
    /\ winUnchanged

\* lines 88-94
W_Enumerate ==
    /\ platform = "windows" /\ pc = "enumerate"
    /\ \E ok \in BOOLEAN :
          /\ calls' = Append(calls, Call("WTSEnumerateSessionsW", ok))
          /\ IF ok
             THEN /\ pSessions' = "pSessions"
                  /\ acquired' = Acquire(acquired, "pSessions")
                  /\ pc' = "scan"
                  /\ exitCode' = exitCode
             ELSE /\ NoSessionFound
                  /\ UNCHANGED <<pSessions, acquired>>
    /\ UNCHANGED <<rc, waitForChild, sessionSpecified, targetSessionId, i,
                   cmdArgStart, hToken, hDupToken, lpEnvironment, cmdLine,
                   sessionUser, profileDir, pi, lastError, process, released,
                   worldVars>>
    /\ winUnchanged

\* a loop that keeps the last active session
FirstActive_Last(tbl) ==
    IF \E k \in 1..Len(tbl) : tbl[k].State = "WTSActive"
    THEN CHOOSE k \in 1..Len(tbl) :
            /\ tbl[k].State = "WTSActive"
            /\ \A j \in (k + 1)..Len(tbl) : tbl[j].State # "WTSActive"
    ELSE 0

\* lines 96-103: the index of the session the loop stops at, 0 if none
FirstActive(tbl) ==
    IF \E k \in 1..Len(tbl) : tbl[k].State = "WTSActive"
    THEN CHOOSE k \in 1..Len(tbl) :
            /\ tbl[k].State = "WTSActive"
            /\ \A j \in 1..(k - 1) : tbl[j].State # "WTSActive"
    ELSE 0

\* lines 96-106: the loop, WTSFreeMemory, and the return
W_Scan ==
    /\ platform = "windows" /\ pc = "scan"
    /\ LET k == FirstActive(sessions)
       IN  IF k # 0
           THEN /\ targetSessionId' = sessions[k].SessionId
                /\ pc' = "username"
                /\ exitCode' = exitCode
           ELSE /\ targetSessionId' = targetSessionId
                /\ NoSessionFound
    /\ pSessions' = NULL
    /\ released' = Acquire(released, "pSessions")
    /\ UNCHANGED <<rc, calls, waitForChild, sessionSpecified, i, cmdArgStart,
                   hToken, hDupToken, lpEnvironment, cmdLine, sessionUser,
                   profileDir, pi, lastError, process, acquired, worldVars>>
    /\ winUnchanged

(***************************************************************************)
(* wmain, lines 337-447.                                                   *)
(***************************************************************************)
SessionExists(id) == \E k \in 1..Len(sessions) : sessions[k].SessionId = id
UserLoggedOn(id) ==
    \E k \in 1..Len(sessions) :
        sessions[k].SessionId = id /\ sessions[k].State = "WTSActive"

\* lines 113-123 and 338: get_session_username; the query can only succeed
\* for a session that exists
W_Username ==
    /\ platform = "windows" /\ pc = "username"
    /\ \E ok \in {b \in BOOLEAN : b => SessionExists(targetSessionId)} :
          /\ calls' = Append(calls, Call("WTSQuerySessionInformationW", ok))
          /\ IF ok
             THEN /\ sessionUser' = "sessionUser"
                  /\ acquired' = Acquire(acquired, "sessionUser")
             ELSE UNCHANGED <<sessionUser, acquired>>
    /\ pc' = "token"
    /\ UNCHANGED <<rc, waitForChild, sessionSpecified, targetSessionId, i,
                   cmdArgStart, exitCode, hToken, hDupToken, lpEnvironment,
                   cmdLine, profileDir, pi, pSessions, lastError, process,
                   released, worldVars>>
    /\ winUnchanged

\* what WTSQueryUserToken answers: it needs the caller to be the system
\* account, the session to exist, and a user to be logged on to it
TokenQueryResults ==
    IF ~isElevated THEN {"ERROR_PRIVILEGE_NOT_HELD"}
    ELSE IF ~SessionExists(targetSessionId) THEN {"ERROR_FILE_NOT_FOUND"}
    ELSE IF ~UserLoggedOn(targetSessionId) THEN {"ERROR_NO_TOKEN"}
    ELSE {"ERROR_SUCCESS", "ERROR_ACCESS_DENIED"}

\* lines 350-360: the exit code for a failed WTSQueryUserToken
TokenFailureCode(err) ==
    IF err = "ERROR_PRIVILEGE_NOT_HELD" THEN EXIT_TOKEN_FAILURE
    ELSE IF err = "ERROR_NO_TOKEN" THEN EXIT_TOKEN_FAILURE
    ELSE EXIT_TOKEN_FAILURE

\* lines 349-362
W_QueryUserToken ==
    /\ platform = "windows" /\ pc = "token"
    /\ \E err \in TokenQueryResults :
          /\ calls' = Append(calls,
                             Call("WTSQueryUserToken", err = "ERROR_SUCCESS"))
          /\ IF err = "ERROR_SUCCESS"
             THEN /\ hToken' = "hToken"
                  /\ acquired' = Acquire(acquired, "hToken")
                  /\ pc' = "duplicate"
                  /\ UNCHANGED <<exitCode, lastError>>
             ELSE /\ lastError' = err
                  /\ exitCode' = TokenFailureCode(err)
                  /\ pc' = "cleanup"
                  /\ UNCHANGED <<hToken, acquired>>
    /\ UNCHANGED <<rc, waitForChild, sessionSpecified, targetSessionId, i,
                   cmdArgStart, hDupToken, lpEnvironment, cmdLine,
                   sessionUser, profileDir, pi, pSessions, process, released,
                   worldVars>>
    /\ winUnchanged

\* lines 366-371
W_DuplicateToken ==
    /\ platform = "windows" /\ pc = "duplicate"
    /\ \E ok \in BOOLEAN :
          /\ calls' = Append(calls, Call("DuplicateTokenEx", ok))
          /\ IF ok
             THEN /\ hDupToken' = "hDupToken"
                  /\ acquired' = Acquire(acquired, "hDupToken")
                  /\ pc' = "environment"
                  /\ exitCode' = exitCode
             ELSE /\ exitCode' = EXIT_TOKEN_FAILURE
                  /\ pc' = "cleanup"
                  /\ UNCHANGED <<hDupToken, acquired>>
    /\ UNCHANGED <<rc, waitForChild, sessionSpecified, targetSessionId, i,
                   cmdArgStart, hToken, lpEnvironment, cmdLine, sessionUser,
                   profileDir, pi, pSessions, lastError, process, released,
                   worldVars>>
    /\ winUnchanged

\* lines 375-379
W_CreateEnvironmentBlock ==
    /\ platform = "windows" /\ pc = "environment"
    /\ \E ok \in BOOLEAN :
          /\ calls' = Append(calls, Call("CreateEnvironmentBlock", ok))
          /\ IF ok
             THEN /\ lpEnvironment' = "lpEnvironment"
                  /\ acquired' = Acquire(acquired, "lpEnvironment")
                  /\ pc' = "profile"
                  /\ exitCode' = exitCode
             ELSE /\ exitCode' = EXIT_GENERAL_FAILURE
                  /\ pc' = "cleanup"
                  /\ UNCHANGED <<lpEnvironment, acquired>>
    /\ UNCHANGED <<rc, waitForChild, sessionSpecified, targetSessionId, i,
                   cmdArgStart, hToken, hDupToken, cmdLine, sessionUser,
                   profileDir, pi, pSessions, lastError, process, released,
                   worldVars>>
    /\ winUnchanged

\* the profile directory the OS reports for the user
PROFILE_DIR == <<"p">>

\* a wmain that gives up when the profile directory is not resolved
AfterProfileDirectory_Fatal(ok) == IF ok THEN "cmdline" ELSE "cleanup"

\* lines 384-391: whatever GetUserProfileDirectoryW returns, wmain goes on
\* to build the command line
AfterProfileDirectory(ok) == "cmdline"

\* line 416: the lpCurrentDirectory handed to CreateProcessAsUserW, <<>> for
\* NULL
lpCurrentDirectory == IF Len(profileDir) > 0 THEN <<profileDir>> ELSE <<>>

\* lines 383-387: a failure leaves profileDir empty and is not fatal
W_ProfileDirectory ==
    /\ platform = "windows" /\ pc = "profile"
    /\ \E ok \in BOOLEAN :
          /\ calls' = Append(calls, Call("GetUserProfileDirectoryW", ok))
          /\ profileDir' = IF ok THEN PROFILE_DIR ELSE <<>>
          /\ pc' = AfterProfileDirectory(ok)
    /\ UNCHANGED <<rc, waitForChild, sessionSpecified, targetSessionId, i,
                   cmdArgStart, exitCode, hToken, hDupToken, lpEnvironment,
                   cmdLine, sessionUser, pi, pSessions, lastError, process,
                   acquired, released, worldVars>>
    /\ winUnchanged

\* lines 391-396: build_command_line returns NULL when malloc fails
\* (line 187-189); cmdLine is <<>> for NULL and <<string>> otherwise
W_BuildCommandLine ==
    /\ platform = "windows" /\ pc = "cmdline"
    /\ \E ok \in BOOLEAN :
          /\ calls' = Append(calls, Call("build_command_line", ok))
          /\ IF ok
             THEN /\ cmdLine' =
                        <<build_command_line(SubSeq(argv, cmdArgStart + 1, argc))>>
                  /\ acquired' = Acquire(acquired, "cmdLine")
                  /\ pc' = "create"
                  /\ exitCode' = exitCode
             ELSE /\ exitCode' = EXIT_GENERAL_FAILURE
                  /\ pc' = "cleanup"
                  /\ UNCHANGED <<cmdLine, acquired>>
    /\ UNCHANGED <<rc, waitForChild, sessionSpecified, targetSessionId, i,
                   cmdArgStart, hToken, hDupToken, lpEnvironment, sessionUser,
                   profileDir, pi, pSessions, lastError, process, released,
                   worldVars>>
    /\ winUnchanged

\* lines 407-447: CreateProcessAsUserW, and the branch on --wait
W_CreateProcess ==
    /\ platform = "windows" /\ pc = "create"
    /\ \E ok \in BOOLEAN :
          /\ calls' = Append(calls, Call("CreateProcessAsUserW", ok))
          /\ IF ok
             THEN /\ pi' = [hProcess |-> "hProcess", hThread |-> "hThread"]
                  /\ acquired' = Acquire(Acquire(acquired, "hProcess"),
                                         "hThread")
                  /\ process' = [process EXCEPT !.state = "running"]
                  /\ IF waitForChild
                     THEN pc' = "wait" /\ exitCode' = exitCode
                     ELSE pc' = "cleanup" /\ exitCode' = EXIT_SUCCESS_CODE
             ELSE /\ exitCode' = EXIT_PROCESS_FAILURE
                  /\ pc' = "cleanup"
                  /\ UNCHANGED <<pi, acquired, process>>
    /\ UNCHANGED <<rc, waitForChild, sessionSpecified, targetSessionId, i,
                   cmdArgStart, hToken, hDupToken, lpEnvironment, cmdLine,
                   sessionUser, profileDir, pSessions, lastError, released,
                   worldVars>>
    /\ winUnchanged

\* the created process ends while wmain waits for it: it exits, or it is
\* ended abnormally (an unhandled exception, TerminateProcess)
W_ProcessEnds ==
    /\ platform = "windows" /\ pc = "wait"
    /\ process.state = "running"
    /\ \E e \in ProcessEnds :
          process' = [state |-> "terminated", cause |-> e.cause,
                      code |-> e.code]
    /\ UNCHANGED <<pc, rc, calls, waitForChild, sessionSpecified,
                   targetSessionId, i, cmdArgStart, exitCode, hToken,
                   hDupToken, lpEnvironment, cmdLine, sessionUser, profileDir,
                   pi, pSessions, lastError, acquired, released, worldVars>>
    /\ winUnchanged

\* lines 436-444: WaitForSingleObject returns once the process has ended,
\* then GetExitCodeProcess; (int)childExitCode keeps the 32 bits
W_WaitForChild ==
    /\ platform = "windows" /\ pc = "wait"
    /\ process.state = "terminated"
    /\ \E ok \in BOOLEAN :
          /\ calls' = Append(calls, Call("GetExitCodeProcess", ok))
          /\ exitCode' = IF ok THEN process.code ELSE EXIT_GENERAL_FAILURE
    /\ pc' = "cleanup"
    /\ UNCHANGED <<rc, waitForChild, sessionSpecified, targetSessionId, i,
                   cmdArgStart, hToken, hDupToken, lpEnvironment, cmdLine,
                   sessionUser, profileDir, pi, pSessions, lastError, process,
                   acquired, released, worldVars>>
    /\ winUnchanged

\* a cleanup that forgets the raw user token
CleanupReleases_LeakToken ==
    (IF pi.hThread # NULL THEN {"hThread"} ELSE {})
    \cup (IF pi.hProcess # NULL THEN {"hProcess"} ELSE {})
    \cup (IF cmdLine # <<>> THEN {"cmdLine"} ELSE {})
    \cup (IF lpEnvironment # NULL THEN {"lpEnvironment"} ELSE {})
    \cup (IF hDupToken # NULL THEN {"hDupToken"} ELSE {})
    \cup (IF sessionUser # NULL THEN {"sessionUser"} ELSE {})

\* lines 451-467: what cleanup releases: every handle or buffer that is not
\* NULL
CleanupReleases ==
    (IF pi.hThread # NULL THEN {"hThread"} ELSE {})
    \cup (IF pi.hProcess # NULL THEN {"hProcess"} ELSE {})
    \cup (IF cmdLine # <<>> THEN {"cmdLine"} ELSE {})
    \cup (IF lpEnvironment # NULL THEN {"lpEnvironment"} ELSE {})
    \cup (IF hDupToken # NULL THEN {"hDupToken"} ELSE {})
    \cup (IF hToken # NULL THEN {"hToken"} ELSE {})
    \cup (IF sessionUser # NULL THEN {"sessionUser"} ELSE {})

W_Cleanup ==
    /\ platform = "windows" /\ pc = "cleanup"
    /\ released' = [r \in Resources |->
                       IF r \in CleanupReleases THEN released[r] + 1
                       ELSE released[r]]
    /\ Return(exitCode)
    /\ UNCHANGED <<calls, waitForChild, sessionSpecified, targetSessionId, i,
                   cmdArgStart, exitCode, hToken, hDupToken, lpEnvironment,
                   cmdLine, sessionUser, profileDir, pi, pSessions, lastError,
                   process, acquired, worldVars>>
    /\ winUnchanged

NextWin ==
    \/ W_ParseWait \/ W_ParseSession \/ W_ParseHelp \/ W_ParseEnd
    \/ W_ConsoleQuery \/ W_Enumerate \/ W_Scan
    \/ W_Username \/ W_QueryUserToken \/ W_DuplicateToken
    \/ W_CreateEnvironmentBlock \/ W_ProfileDirectory \/ W_BuildCommandLine
    \/ W_CreateProcess \/ W_ProcessEnds \/ W_WaitForChild \/ W_Cleanup

SpecWin == InitWin /\ [][NextWin]_vars

(***************************************************************************)
(* Both platforms.                                                         *)
(***************************************************************************)
Init == InitMac \/ InitWin
Next == NextMac \/ NextWin
Spec == Init /\ [][Next]_vars

(***************************************************************************)
(* build_command_line on its own: every argument vector within the bounds  *)
(* is handed to it (windows/main.c:391).                                   *)
(***************************************************************************)
CodecChars == {"a", SP, TAB, DQ, BS}

\* the characters in the first k arguments, lens[j] being the length of
\* argument j
RECURSIVE CharsIn(_, _)
CharsIn(lens, k) ==
    IF k = 0 THEN 0 ELSE lens[k] + CharsIn(lens, k - 1)

\* the first k arguments of the vector whose arguments, of lengths lens,
\* are laid end to end in flat
RECURSIVE CutArgs(_, _, _)
CutArgs(flat, lens, k) ==
    IF k = 0 THEN <<>>
    ELSE Append(CutArgs(flat, lens, k - 1),
                SubSeq(flat, CharsIn(lens, k - 1) + 1, CharsIn(lens, k)))

\* argv is any vector of 1..MaxArgc strings over CodecChars that hold at
\* most MaxChars characters together
InitCodec ==
    /\ platform = "codec"
    /\ pc = "cmdline"
    /\ \E n \in 1..MaxArgc :
         \E lens \in [1..n -> 0..MaxChars] :
            /\ CharsIn(lens, n) <= MaxChars
            /\ \E flat \in [1..CharsIn(lens, n) -> CodecChars] :
                  argv = CutArgs(flat, lens, n)
    /\ isElevated = TRUE
    /\ environ = [n \in EnvNames |-> UNSET]
    /\ twin_environ = [n \in EnvNames |-> UNSET]
    /\ InitCommon
    /\ cred = [uid |-> 0, gid |-> 0, groups |-> 0]

\* line 391 with a malloc that succeeds
C_BuildCommandLine ==
    /\ platform = "codec" /\ pc = "cmdline"
    /\ cmdLine' = <<build_command_line(argv)>>
    /\ pc' = "built"
    /\ UNCHANGED <<platform, argv, rc, calls, isElevated, parseVars, macVars,
                   launchVars, exitCode, hToken, hDupToken, lpEnvironment, sessionUser,
                   profileDir, pi, pSessions, lastError, process, acquired,
                   released, worldVars>>

NextCodec == C_BuildCommandLine
SpecCodec == InitCodec /\ [][NextCodec]_vars

\* C3: for every argument vector, splitting the string build_command_line
\* produced with the platform's argument splitting gives the vector back
C3_RoundTrip ==
    (platform = "codec" /\ pc = "built")
        => CommandLineToArgvW(cmdLine[1]) = argv

\* with the argument rule applied to the first token too, the round trip
\* holds for every vector
RoundTripUniformRule ==
    (platform = "codec" /\ pc = "built")
        => SplitUniform(cmdLine[1]) = argv

\* the round trip holds whenever the first argument needs no quoting
RoundTripUnquotedProgramName ==
    (platform = "codec" /\ pc = "built" /\ ~needsQuoting(argv[1]))
        => CommandLineToArgvW(cmdLine[1]) = argv

(***************************************************************************)
(* Properties of the privilege drop (macos/main.c).                        *)
(***************************************************************************)
DropOrder == <<"initgroups", "setgid", "setuid", "setuid(0)">>
IsDropCall(c) == \E k \in 1..4 : DropOrder[k] = c.op
\* the steps of drop_privileges made so far, in the order they were made
DropCalls == SelectSeq(calls, IsDropCall)
\* a step failed: a credential call returned an error, or the attempt to
\* regain root succeeded
DropStepFailed(c) == IF c.op = "setuid(0)" THEN c.ok ELSE ~c.ok
LaunchOps == {"fork", "execvp", "execvp(launchctl)"}
Launched == \E k \in 1..Len(calls) : calls[k].op \in LaunchOps

\* C1: the steps of drop_privileges are made in the order initgroups, setgid,
\* setuid, root-reacquisition check; a step is made only after every earlier
\* one succeeded; and a failed step is the last call of the run, which ends
\* with exit code 3 without fork or exec
C1_DropOrder ==
    platform = "macos" =>
        /\ Len(DropCalls) <= 4
        /\ \A k \in 1..Len(DropCalls) :
              /\ DropCalls[k].op = DropOrder[k]
              /\ k < Len(DropCalls) => ~DropStepFailed(DropCalls[k])
              /\ DropStepFailed(DropCalls[k]) =>
                    /\ calls[Len(calls)] = DropCalls[k]
                    /\ pc = "done"
                    /\ rc = <<EXIT_PRIV_DROP>>
                    /\ ~Launched

\* C1 witness: setuid failed after initgroups and setgid succeeded
C1_Witness ==
    /\ platform = "macos"
    /\ DropCalls = <<Call("initgroups", TRUE), Call("setgid", TRUE),
                     Call("setuid", FALSE)>>
    /\ rc = <<EXIT_PRIV_DROP>>

\* C2: when the attempt to regain root succeeds the run ends with exit code 3
\* and the command is never exec'd; the command is exec'd (without --session)
\* only when that attempt was made and failed
C2_VerifiedBeforeExec ==
    platform = "macos" =>
        /\ CalledWith("setuid(0)", TRUE) =>
              /\ pc = "done"
              /\ rc = <<EXIT_PRIV_DROP>>
              /\ ~Called("execvp")
        /\ Called("execvp") =>
              /\ ~flag_session
              /\ DropCalls = <<Call("initgroups", TRUE), Call("setgid", TRUE),
                               Call("setuid", TRUE), Call("setuid(0)", FALSE)>>

\* C2 witness: the three steps succeeded and root could be regained
C2_Witness ==
    /\ platform = "macos"
    /\ DropCalls = <<Call("initgroups", TRUE), Call("setgid", TRUE),
                     Call("setuid", TRUE), Call("setuid(0)", TRUE)>>
    /\ rc = <<EXIT_PRIV_DROP>>

\* C4: when the console-user query reports no user or the login window, the
\* run ends with exit code 2 and has changed no credential, made no hop and
\* forked or exec'd nothing, whatever the flags
C4_NoConsoleUser ==
    (/\ platform = "macos"
     /\ Called("SCDynamicStoreCopyConsoleUser")
     /\ cf_user \in {NULL, "loginwindow"})
        => /\ pc = "done"
           /\ rc = <<EXIT_NO_SESSION>>
           /\ DropCalls = <<>>
           /\ ~Called("get_self_path")
           /\ ~Launched
           /\ cred = [uid |-> ROOT, gid |-> ROOT, groups |-> ROOT]
           /\ child = NoChild

\* C4 witness: the login window is reported to a run with both flags
C4_Witness ==
    /\ platform = "macos"
    /\ cf_user = "loginwindow"
    /\ flag_wait /\ flag_session
    /\ rc = <<EXIT_NO_SESSION>>

(***************************************************************************)
(* Properties of session discovery and of the exit code.                   *)
(***************************************************************************)
\* wmain has parsed its flags and found a command
WinPipeline == platform = "windows" /\ 0 < cmdArgStart /\ cmdArgStart < argc
\* no session of the OS has a user logged on
NoUserLoggedOn == \A k \in 1..Len(sessions) : sessions[k].State # "WTSActive"
ProcessCreated == CalledWith("CreateProcessAsUserW", TRUE)

\* C5: on the token-based platform, when no interactive user is logged in
\* (the console session may exist without a user), the program exits with
\* code 2 and creates no process
C5_NoUserExitsTwo ==
    (/\ WinPipeline /\ pc = "done"
     /\ isElevated /\ ~sessionSpecified
     /\ NoUserLoggedOn)
        => rc = <<2>> /\ ~ProcessCreated

\* the wait returned the status of a child that exited normally
MacChildExited ==
    /\ platform = "macos"
    /\ CalledWith("waitpid", TRUE)
    /\ child.kind = "exited"
\* the wait returned the status of a child killed by a signal
MacChildSignaled ==
    /\ platform = "macos"
    /\ CalledWith("waitpid", TRUE)
    /\ child.kind = "signaled"
\* wmain read the exit code of the process it waited for, and returned
WinChildCodeRead ==
    /\ platform = "windows"
    /\ CalledWith("GetExitCodeProcess", TRUE)
    /\ pc = "done"

\* C6: in waiting mode, a child that exited normally with code K makes the
\* program exit with K, on both platforms, for the direct launch and for the
\* hop through launchctl
C6_ExitCodeVerbatim ==
    /\ MacChildExited => (flag_wait \/ flag_session) /\ rc = <<child.val>>
    /\ (WinChildCodeRead /\ process.cause = "exit")
          => waitForChild /\ rc = <<process.code>>

\* C6 witness: a direct launch whose command exited with 255
C6_Witness ==
    /\ platform = "macos" /\ flag_wait /\ ~flag_session
    /\ CalledWith("execvp", TRUE)
    /\ child = [state |-> "terminated", kind |-> "exited", val |-> 255]
    /\ rc = <<255>>

KilledCodes == {128 + sg : sg \in Signals}

\* C7 as stated: a child killed by signal S gives 128 + S, outside 0..5, and
\* no child that exited normally gives a code of that form
C7_KilledCodeDistinct ==
    /\ MacChildSignaled => rc = <<128 + child.val>> /\ rc[1] \notin 0..5
    /\ MacChildExited => rc[1] \notin KilledCodes

\* C7 as amended: a child killed by signal S gives 128 + S, which lies in
\* 129..159, outside 0..5; on the token-based platform the termination code
\* is returned as it is, whatever ended the process
C7_KilledCode ==
    /\ MacChildSignaled =>
          /\ rc = <<128 + child.val>>
          /\ rc[1] \in 129..159
          /\ rc[1] \notin 0..5
    /\ WinChildCodeRead => rc = <<process.code>>

\* C7 witness: the command of a direct launch was killed by signal 9
C7_Witness ==
    /\ platform = "macos" /\ flag_wait /\ ~flag_session
    /\ child = [state |-> "terminated", kind |-> "signaled", val |-> 9]
    /\ rc = <<137>>

\* the command (or the helper of the hop) was started
CommandStarted ==
    \/ CalledWith("execvp", TRUE)
    \/ CalledWith("execvp(launchctl)", TRUE)
    \/ ProcessCreated
\* fork, exec or process creation failed
LaunchFailed ==
    \/ CalledWith("fork", FALSE)
    \/ CalledWith("execvp", FALSE)
    \/ CalledWith("execvp(launchctl)", FALSE)
    \/ CalledWith("CreateProcessAsUserW", FALSE)
\* the program waited for what it started and read how it ended
ChildCodeRead ==
    \/ platform = "macos" /\ CalledWith("waitpid", TRUE)
    \/ platform = "windows" /\ CalledWith("GetExitCodeProcess", TRUE)

\* C8 as stated: a launch failure ends the program with exit code 4, and a
\* run that ends with exit code 4 never started the command
C8_ExitFourMeansNotStarted ==
    pc = "done" =>
        /\ (LaunchFailed /\ ~CalledWith("waitpid", FALSE)) => rc = <<4>>
        /\ rc = <<4>> => ~CommandStarted

\* C8 as amended: a launch failure ends the program with exit code 4 (an
\* exec failure in the forked child: when the wait returns its status); a
\* run that ends with exit code 4 had a launch failure, or waited for a
\* command or helper that started and itself ended with code 4
C8_LaunchFailureIsFour ==
    pc = "done" =>
        /\ (LaunchFailed /\ ~CalledWith("waitpid", FALSE)) => rc = <<4>>
        /\ rc = <<4>> =>
              \/ LaunchFailed /\ ~CommandStarted
              \/ /\ CommandStarted /\ ChildCodeRead
                 /\ \/ platform = "macos" /\ child.kind = "exited"
                                          /\ child.val = 4
                    \/ platform = "windows" /\ process.code = 4

\* C8 witness: exec failed in the forked child and the parent returned 4
C8_Witness ==
    /\ platform = "macos" /\ flag_wait
    /\ CalledWith("execvp", FALSE)
    /\ CalledWith("waitpid", TRUE)
    /\ rc = <<4>>

\* the calls by which a session is discovered, a token requested, a process
\* created
DiscoveryOps == {"SCDynamicStoreCopyConsoleUser",
                 "WTSGetActiveConsoleSessionId", "WTSEnumerateSessionsW",
                 "WTSQueryUserToken", "CreateProcessAsUserW",
                 "fork", "execvp", "execvp(launchctl)"}
\* the program has parsed its flags and found a command
CommandGiven ==
    \/ platform = "macos" /\ Called("getuid")
    \/ WinPipeline

\* C9: a run with a command but without elevated rights makes no session
\* query, no token request and no process, and exits with code 1
C9_UnprivilegedExitsOne ==
    (CommandGiven /\ ~isElevated) =>
        /\ \A k \in 1..Len(calls) : calls[k].op \notin DiscoveryOps
        /\ pc = "done" => rc = <<1>>

\* C10: on the token-based platform no resource is released that was not
\* acquired, none is acquired or released twice, the enumeration buffer is
\* released before find_active_session returns, and when the program has
\* returned every acquired resource has been released
C10_ReleasedExactlyOnce ==
    platform = "windows" =>
        \A r \in Resources :
            /\ released[r] <= acquired[r]
            /\ acquired[r] <= 1
            /\ pc = "done" => released[r] = acquired[r]
            /\ (r = "pSessions" /\ pc \notin {"enumerate", "scan"})
                  => released[r] = acquired[r]

\* C10 witness: a run that acquired every resource, the enumeration buffer
\* included, and has returned
C10_Witness ==
    /\ platform = "windows" /\ pc = "done"
    /\ \A r \in Resources : acquired[r] = 1 /\ released[r] = 1

(***************************************************************************)
(* The namespace-indirection hop (macos/main.c handle_session).            *)
(***************************************************************************)
\* the run is in handle_session and has built the vector for launchctl
HopVectorBuilt == platform = "macos" /\ flag_session /\ CalledWith("calloc", TRUE)
\* the exit code the waiting mode gives for a wait status
WaitingModeCode(st) ==
    IF st.kind = "exited" THEN st.val ELSE 128 + st.val

\* C11: with --session on macos, whether or not --wait was given, once the
\* vector for the helper is built the program forks; after a successful
\* fork it returns only when waitpid failed (code 1) or when the helper has
\* terminated, and then with the helper's exit code verbatim or 128 + the
\* signal that killed it; the outer process never calls execvp for the
\* command and never replaces its own image.
C11_HopSupervised ==
    (platform = "macos" /\ flag_session) =>
        /\ pc # "replaced"
        /\ ~Called("execvp")
        /\ HopVectorBuilt => pc \in {"sfork", "swait", "done"}
        /\ (HopVectorBuilt /\ pc = "done") => Called("fork")
        /\ (pc = "done" /\ CalledWith("fork", TRUE)) =>
              \/ CalledWith("waitpid", FALSE) /\ rc = <<EXIT_GENERAL>>
              \/ /\ CalledWith("waitpid", TRUE)
                 /\ child.state = "terminated"
                 /\ rc = <<WaitingModeCode(child)>>
                 /\ rc = <<MainExitOf(child)>>

\* a run with --session and without --wait that waited for a helper that a
\* signal killed
C11_Witness ==
    /\ platform = "macos" /\ flag_session /\ ~flag_wait /\ pc = "done"
    /\ child.state = "terminated" /\ child.kind = "signaled"
    /\ CalledWith("waitpid", TRUE)
    /\ rc = <<128 + child.val>>

\* the argument vector of the re-invoked program: launchctl asuser <uid>
\* runs args[4..] with args[4] as its argv[0]
InnerArgv == SubSeq(args, 4, Len(args))
\* the outer argument vector with the --session flags before the command
\* taken out
OuterWithoutSession ==
    <<argv[1]>>
    \o SelectSeq(SubSeq(argv, 2, argi), LAMBDA t : t # T_session)
    \o cmd_argv

\* C12: the vector built for the hop is launchctl, asuser, the target uid
\* in decimal, the program's own resolved path, --wait exactly when --wait
\* was given, then the command and its arguments in order; no --session
\* stands before the command; parsing the vector's tail as the re-invoked
\* program does gives the outer run's wait flag and command with the
\* session flag off, so the re-invoked program does not hop again; and this
\* vector is the one handed to execvp.
C12_HopVector ==
    HopVectorBuilt =>
        /\ Len(args) = 4 + (IF flag_wait THEN 1 ELSE 0) + cmd_argc
        /\ args[1] = L_launchctl /\ args[2] = L_asuser
        /\ Len(args[3]) >= 1 /\ DigitPrefix(args[3], 1) = Len(args[3])
        /\ (Len(args[3]) = 1 \/ args[3][1] # "0")
        /\ DecimalValue(args[3], Len(args[3])) = uid
        /\ args[4] = self_path
        /\ (args[5] = T_wait) <=> flag_wait
        /\ SubSeq(args, Len(args) - cmd_argc + 1, Len(args)) = cmd_argv
        /\ \A k \in 1..(Len(args) - cmd_argc) : args[k] # T_session
        /\ LET inner == ParseFlags(InnerArgv)
               off == ParseFlags(OuterWithoutSession)
           IN  /\ ~inner.help /\ ~inner.flag_session
               /\ inner.flag_wait = flag_wait
               /\ SubSeq(InnerArgv, inner.argi + 1, Len(InnerArgv)) = cmd_argv
               /\ inner.flag_wait = off.flag_wait
               /\ off.flag_session = FALSE
               /\ SubSeq(InnerArgv, inner.argi + 1, Len(InnerArgv))
                     = SubSeq(OuterWithoutSession, off.argi + 1,
                              Len(OuterWithoutSession))
        /\ Called("execvp(launchctl)") => exec_argv = args

\* a hop with --wait, for an ordinary user, whose vector reached execvp
C12_Witness ==
    /\ HopVectorBuilt /\ flag_wait /\ uid = USER_UID
    /\ CalledWith("execvp(launchctl)", TRUE)
    /\ exec_argv = <<L_launchctl, L_asuser, <<"5", "0", "1">>, self_path,
                     T_wait, T_two>>

(***************************************************************************)
(* Non-waiting mode.                                                       *)
(***************************************************************************)
\* a macos run with a command, without --wait and without --session
MacNonWaiting ==
    /\ platform = "macos" /\ Called("getuid")
    /\ ~flag_wait /\ ~flag_session
\* a windows run with a command and without --wait
WinNonWaiting == WinPipeline /\ ~waitForChild
\* every step of the privilege drop has been made and has succeeded
DropComplete ==
    /\ \A k \in 1..3 : CalledWith(DropOrder[k], TRUE)
    /\ CalledWith("setuid(0)", FALSE)
    /\ cred = [uid |-> uid, gid |-> uid, groups |-> uid]

\* C13: without --wait, the macos program (without --session) never forks,
\* calls execvp for the command itself only after the complete privilege
\* drop and the environment reset, and its image is replaced exactly when
\* that execvp succeeds; the windows program never waits for the created
\* process nor reads its exit code, and it exits with 0 exactly when
\* CreateProcessAsUserW succeeded.
C13_NonWaiting ==
    /\ MacNonWaiting =>
          /\ ~Called("fork") /\ child = NoChild
          /\ pc \notin {"fork", "wait", "sfork", "swait"}
          /\ Called("execvp") =>
                /\ DropComplete
                /\ Called("setenv")
                /\ environ = setup_environment(environ, Passwd(uid))
                /\ exec_argv = cmd_argv
          /\ (pc = "replaced") <=> CalledWith("execvp", TRUE)
          /\ (pc = "replaced") => rc = NoExit
    /\ WinNonWaiting =>
          /\ pc # "wait"
          /\ ~Called("GetExitCodeProcess")
          /\ process.state # "terminated"
          /\ (pc = "done") =>
                ((rc = <<EXIT_SUCCESS_CODE>>) <=> ProcessCreated)

\* the command has replaced the image of a macos run without --wait
C13_Witness ==
    /\ MacNonWaiting /\ pc = "replaced" /\ uid = USER_UID
    /\ environ["HOME"] = "/Users/alice"

\* a windows run without --wait has created the process and returned 0
C13_WitnessWin ==
    /\ WinNonWaiting /\ pc = "done" /\ ProcessCreated
    /\ rc = <<EXIT_SUCCESS_CODE>> /\ process.state = "running"

(***************************************************************************)
(* Interrupted waits (macos/main.c lines 318-323 and 149-154).             *)
(***************************************************************************)
\* the program waits for a forked child
MacWaitingForChild == platform = "macos" /\ pc \in {"wait", "swait"}
\* the call made last was a waitpid that EINTR interrupted
LastWaitInterrupted ==
    /\ Len(calls) > 0
    /\ calls[Len(calls)].op = "waitpid(EINTR)"

\* C14: an interrupted waitpid never makes the program return: after it
\* the program is still waiting; whatever the number of interruptions, a
\* wait that returns the child's status gives the exit code of the
\* uninterrupted wait (exit code verbatim, 128 + signal), and a return with
\* no status read is a waitpid error other than EINTR, with code 1; and
\* once the child has terminated the program eventually returns.
C14_InterruptedWait ==
    /\ [](LastWaitInterrupted =>
            (MacWaitingForChild /\ rc = NoExit /\ eintr >= 1))
    /\ []((platform = "macos" /\ pc = "done" /\ CalledWith("waitpid", TRUE)) =>
            (child.state = "terminated" /\ rc = <<WaitingModeCode(child)>>))
    /\ []((platform = "macos" /\ pc = "done" /\ CalledWith("fork", TRUE)
            /\ ~CalledWith("waitpid", TRUE)) =>
            (CalledWith("waitpid", FALSE) /\ rc = <<EXIT_GENERAL>>))
    /\ ((MacWaitingForChild /\ child.state = "terminated") ~> (pc = "done"))

\* a wait that was interrupted as often as the bound allows and then
\* returned the status of a child that exited with 7
C14_Witness ==
    /\ platform = "macos" /\ pc = "done" /\ eintr = MaxEintr
    /\ Called("waitpid(EINTR)") /\ CalledWith("waitpid", TRUE)
    /\ child.kind = "exited" /\ child.val = 7 /\ rc = <<7>>

(***************************************************************************)
(* The explicit session id (windows/main.c lines 296-310, 329-362).        *)
(***************************************************************************)
\* a windows run by the system account with a command and --session <id>
ExplicitSessionRun ==
    /\ WinPipeline /\ sessionSpecified /\ isElevated
\* the token request was made for the session id given with --session
TargetIsGivenId ==
    \E k \in 1..(cmdArgStart - 1) :
        /\ Arg(k) = T_session
        /\ wcstoul(Arg(k + 1)).val = targetSessionId

\* C15: with --session <id> on windows neither the console-session query
\* nor the enumeration is made and the id given is the target; when the OS
\* has no session with that id the program exits with code 2 and creates
\* no process
C15_ExplicitSession ==
    ExplicitSessionRun =>
        /\ ~Called("WTSGetActiveConsoleSessionId")
        /\ ~Called("WTSEnumerateSessionsW")
        /\ TargetIsGivenId
        /\ (pc = "done" /\ ~SessionExists(targetSessionId)) =>
              (rc = <<EXIT_NO_SESSION>> /\ ~ProcessCreated)

\* the part of C15 that the program keeps: discovery is skipped, the id
\* given is the target, and an unknown id creates no process (the exit code
\* is that of the failed token request)
C15_ExplicitSessionSkipsDiscovery ==
    ExplicitSessionRun =>
        /\ ~Called("WTSGetActiveConsoleSessionId")
        /\ ~Called("WTSEnumerateSessionsW")
        /\ TargetIsGivenId
        /\ (pc = "done" /\ ~SessionExists(targetSessionId)) =>
              (rc = <<EXIT_TOKEN_FAILURE>> /\ ~ProcessCreated)

(***************************************************************************)
(* Acquiring the user's context (windows/main.c lines 347-379).            *)
(***************************************************************************)
ContextSteps == <<"WTSQueryUserToken", "DuplicateTokenEx",
                  "CreateEnvironmentBlock">>
\* step k of acquiring the user's context failed
ContextStepFailed(k) == CalledWith(ContextSteps[k], FALSE)

\* C16: on windows, when the token request, the token duplication or the
\* derivation of the environment block fails, the program exits with code
\* 3, not with 1, and no process is created
C16_ContextFailureIsThree ==
    (platform = "windows" /\ pc = "done"
     /\ \E k \in 1..3 : ContextStepFailed(k)) =>
        (rc = <<EXIT_TOKEN_FAILURE>> /\ rc # <<EXIT_GENERAL_FAILURE>>
         /\ ~ProcessCreated)

\* the part of C16 that the program keeps: a failed token request or token
\* duplication gives 3, a failed environment block gives 1, and none of
\* them creates a process
C16_TokenFailureIsThree ==
    (platform = "windows" /\ pc = "done") =>
        /\ (ContextStepFailed(1) \/ ContextStepFailed(2)) =>
              (rc = <<EXIT_TOKEN_FAILURE>> /\ ~ProcessCreated)
        /\ ContextStepFailed(3) =>
              (rc = <<EXIT_GENERAL_FAILURE>> /\ ~ProcessCreated)

(***************************************************************************)
(* The command's environment (macos/main.c setup_environment, lines        *)
(* 211-218; execvp hands the process's environment to the command).        *)
(***************************************************************************)
\* the direct launch has exec'd the command
CommandExeced == platform = "macos" /\ CalledWith("execvp", TRUE)
\* the five variables hold the values of the target user's passwd entry
TargetValues(env) ==
    /\ env["HOME"] = Passwd(uid).pw_dir
    /\ env["USER"] = Passwd(uid).pw_name
    /\ env["LOGNAME"] = Passwd(uid).pw_name
    /\ env["SHELL"] = Passwd(uid).pw_shell
    /\ env["PATH"] = DEFAULT_PATH

\* C17: when the command is exec'd (direct launch), HOME, USER, LOGNAME,
\* SHELL and PATH hold the target user's values, and the environment handed
\* to the command is the same in the run and in its twin, the same run
\* started with another caller's environment
C17_CleanEnvironment ==
    CommandExeced =>
        /\ TargetValues(environ)
        /\ environ = twin_environ

\* the part of C17 that the program keeps: the five variables hold the
\* target user's values in the run and in its twin; a variable that
\* setup_environment does not name keeps the caller's value
C17_FiveVariablesReset ==
    CommandExeced =>
        /\ TargetValues(environ) /\ TargetValues(twin_environ)
        /\ \A n \in EnvNames \ {"HOME", "USER", "LOGNAME", "SHELL", "PATH"} :
              \E e \in CallerEnvs : environ[n] = e[n]

(***************************************************************************)
(* Flag parsing (macos/main.c lines 225-248, windows/main.c lines 289-325).*)
(***************************************************************************)
\* how the flag loop ends for the run's argument vector: the loop meets
\* --help or -h as a flag ("help"), ends with no command ("usage"), or
\* finds the command
ParseOutcome ==
    IF platform = "windows" THEN WParseFlags(argv).outcome
    ELSE IF ParseFlags(argv).help THEN "help"
    ELSE IF ParseFlags(argv).argi >= argc THEN "usage"
    ELSE "command"
\* the program has made no OS call, changed no credential, created no
\* child or process and acquired no token, handle or buffer
NothingDone ==
    /\ calls = <<>>
    /\ cred.uid = (IF platform = "macos" /\ ~isElevated THEN USER_UID ELSE ROOT)
    /\ cred.gid = cred.uid /\ cred.groups = cred.uid
    /\ child = NoChild /\ process.state = "none"
    /\ \A r \in Resources : acquired[r] = 0
    /\ hToken = NULL /\ hDupToken = NULL
    /\ exec_argv = <<>> /\ args = <<>>

\* C18: on both platforms, when the flag loop meets --help or -h the
\* program returns 0, and when it ends with no command the program returns
\* 5; in both cases, whether the caller is elevated or not, the program
\* never leaves the flag loop except to return and has made no OS call:
\* no rights check, session query, token request, credential change or
\* process creation
C18_HelpAndUsage ==
    (platform \in {"macos", "windows"} /\ ParseOutcome \in {"help", "usage"}) =>
        /\ pc \in {"parse", "done"}
        /\ NothingDone
        /\ (pc = "done") =>
              rc = <<IF ParseOutcome = "help" THEN 0 ELSE 5>>

\* an unprivileged macos run that met -h after --wait and returned 0
C18_Witness ==
    /\ platform = "macos" /\ ~isElevated /\ pc = "done"
    /\ argv = <<T_self, T_wait, T_h>>
    /\ rc = <<0>> /\ calls = <<>>

\* a windows run whose flags are not followed by a command returned 5
C18_WitnessUsage ==
    /\ platform = "windows" /\ pc = "done"
    /\ argv = <<T_self, T_session, T_two, T_wait>>
    /\ rc = <<5>> /\ calls = <<>>

\* this program's flags
OwnFlags == {T_wait, T_session, T_help, T_h}
\* macos: C index of the first token after argv[0] that is not a flag of
\* this program (there is one)
FirstNonFlag ==
    CHOOSE k \in 1..(argc - 1) :
        /\ Arg(k) \notin OwnFlags
        /\ \A j \in 1..(k - 1) : Arg(j) \in OwnFlags
\* the tokens from C index k on
TokensFrom(k) == SubSeq(argv, k + 1, argc)
\* token t stands before C index k
FlagBefore(t, k) == \E j \in 1..(k - 1) : Arg(j) = t

\* C19: the command vector is the first token that is no flag of this
\* program together with every token after it, in order and unchanged,
\* whatever these tokens are; it is the vector handed to execvp (macos,
\* after the hop's prefix under --session) and to build_command_line
\* (windows); the wait and session settings are those of the tokens before
\* the command
C19_CommandVector ==
    /\ (platform = "macos" /\ ParseOutcome = "command" /\ pc # "parse") =>
          /\ argi = FirstNonFlag
          /\ flag_wait <=> FlagBefore(T_wait, FirstNonFlag)
          /\ flag_session <=> FlagBefore(T_session, FirstNonFlag)
          /\ Called("execvp") => exec_argv = TokensFrom(FirstNonFlag)
          /\ Called("execvp(launchctl)") =>
                SubSeq(exec_argv, 5 + (IF flag_wait THEN 1 ELSE 0),
                       Len(exec_argv)) = TokensFrom(FirstNonFlag)
    /\ (platform = "windows" /\ ParseOutcome = "command" /\ pc # "parse") =>
          LET c == WParseFlags(argv).cmdArgStart
          IN  /\ cmdArgStart = c
              /\ Arg(c) \notin OwnFlags
              /\ waitForChild <=> FlagBefore(T_wait, c)
              /\ sessionSpecified <=> FlagBefore(T_session, c)
              /\ CalledWith("build_command_line", TRUE) =>
                    cmdLine = <<build_command_line(TokensFrom(c))>>

\* a macos run whose command has --wait as its argument: it does not wait
\* and hands the flag to the command
C19_Witness ==
    /\ platform = "macos" /\ pc = "replaced" /\ ~flag_wait /\ ~flag_session
    /\ argv = <<T_self, T_two, T_wait, T_session>>
    /\ exec_argv = <<T_two, T_wait, T_session>>

(***************************************************************************)
(* The encoding rules of build_command_line, stated by runs of             *)
(* backslashes.                                                            *)
(***************************************************************************)
\* the length of the run of backslashes of str that starts at position p
RECURSIVE RunFrom(_, _)
RunFrom(str, p) ==
    IF p > Len(str) \/ str[p] # BS THEN 0 ELSE 1 + RunFrom(str, p + 1)

\* the inside of the quoted form of str from position p on: a run of n
\* backslashes before a quote becomes 2n+1 backslashes and the quote, a run
\* of n backslashes at the end becomes 2n backslashes, every other
\* character stays
RECURSIVE RuleInside(_, _)
RuleInside(str, p) ==
    IF p > Len(str) THEN <<>>
    ELSE LET n == RunFrom(str, p)
             q == p + n
         IN  IF q > Len(str) THEN Rep(BS, 2 * n)
             ELSE IF str[q] = DQ
                  THEN Rep(BS, 2 * n + 1) \o <<DQ>> \o RuleInside(str, q + 1)
                  ELSE Rep(BS, n) \o <<str[q]>> \o RuleInside(str, q + 1)

\* the encoding of one argument by the rules
RuleEncode(str) ==
    IF str = <<>> THEN <<DQ, DQ>>
    ELSE IF \A k \in 1..Len(str) : str[k] \notin {SP, TAB, DQ} THEN str
    ELSE <<DQ>> \o RuleInside(str, 1) \o <<DQ>>

\* the encodings of the first k arguments of vec joined by single spaces
RECURSIVE RuleJoin(_, _)
RuleJoin(vec, k) ==
    IF k = 0 THEN <<>>
    ELSE IF k = 1 THEN RuleEncode(vec[1])
    ELSE RuleJoin(vec, k - 1) \o <<SP>> \o RuleEncode(vec[k])

\* C20: the string build_command_line returns is the encodings of the
\* arguments, each encoded on its own, joined by exactly one space with no
\* space before the first or after the last; an argument is encoded
\* verbatim when it is not empty and holds no space, tab or quote, as two
\* quotes when it is empty, and otherwise between quotes with a run of N
\* backslashes before a quote written as 2N+1 backslashes and the quote, a
\* run of N backslashes at the end as 2N backslashes, and every other
\* character unchanged
C20_EncodingRules ==
    (platform = "codec" /\ pc = "built") =>
        /\ cmdLine = <<RuleJoin(argv, Len(argv))>>
        /\ Len(cmdLine[1]) =
              CharsIn([k \in 1..Len(argv) |-> Len(RuleEncode(argv[k]))],
                      Len(argv)) + Len(argv) - 1

\* two arguments, the first with a backslash before a quote, the second
\* ending in a blank and a backslash
C20_Witness ==
    /\ platform = "codec" /\ pc = "built"
    /\ argv = <<<<BS, DQ>>, <<SP, BS>>>>
    /\ cmdLine = <<<<DQ, BS, BS, BS, DQ, DQ, SP, DQ, SP, BS, BS, DQ>>>>

(***************************************************************************)
(* The enumeration fallback (windows/main.c find_active_session, lines     *)
(* 87-106).                                                                *)
(***************************************************************************)
\* a windows run with a command and no --session whose console-session
\* query gave 0xFFFFFFFF
ConsoleQueryGaveNone ==
    /\ WinPipeline /\ ~sessionSpecified
    /\ CalledWith("WTSGetActiveConsoleSessionId", FALSE)
\* the enumeration has been made and the loop over it has ended
EnumerationScanned ==
    CalledWith("WTSEnumerateSessionsW", TRUE) /\ pc \notin {"enumerate", "scan"}
\* index k holds an active session and no lower index does
LowestActiveIndex(k) ==
    /\ k \in 1..Len(sessions)
    /\ sessions[k].State = "WTSActive"
    /\ \A j \in 1..Len(sessions) :
          sessions[j].State = "WTSActive" => k <= j
\* find_active_session selected nothing: the program is on its way out with
\* code 2, and has neither requested a token nor created a process
EndsWithNoSession ==
    /\ pc \in {"cleanup", "done"}
    /\ exitCode = EXIT_NO_SESSION
    /\ (pc = "done") => rc = <<EXIT_NO_SESSION>>
    /\ ~Called("WTSQueryUserToken") /\ ~Called("CreateProcessAsUserW")
    /\ hToken = NULL /\ process.state = "none"

\* C21: on windows with no --session, when the console-session query gives
\* 0xFFFFFFFF the target is the session at the lowest index of the
\* enumeration whose state is active; when the enumeration fails or holds
\* no active session the program exits with code 2 and neither requests a
\* token nor creates a process
C21_EnumerationFallback ==
    ConsoleQueryGaveNone =>
        /\ pc # "console"
        /\ CalledWith("WTSEnumerateSessionsW", FALSE) => EndsWithNoSession
        /\ EnumerationScanned =>
              IF \E k \in 1..Len(sessions) : sessions[k].State = "WTSActive"
              THEN /\ \E k \in 1..Len(sessions) :
                        /\ LowestActiveIndex(k)
                        /\ targetSessionId = sessions[k].SessionId
                   /\ exitCode # EXIT_NO_SESSION
                   /\ pc \notin {"cleanup", "done"} \/ Called("WTSQueryUserToken")
              ELSE EndsWithNoSession

\* two active sessions were enumerated, the first was selected and the
\* process was created in it
C21_Witness ==
    /\ ConsoleQueryGaveNone /\ EnumerationScanned
    /\ Len(sessions) = 2
    /\ sessions[1].State = "WTSActive" /\ sessions[2].State = "WTSActive"
    /\ targetSessionId = sessions[1].SessionId
    /\ ProcessCreated /\ pc = "done"

\* the enumeration held no active session and the program returned 2
C21_WitnessNone ==
    /\ ConsoleQueryGaveNone /\ EnumerationScanned
    /\ Len(sessions) = 2 /\ pc = "done" /\ rc = <<EXIT_NO_SESSION>>

(***************************************************************************)
(* The profile directory (windows/main.c lines 381-387, 407-418).          *)
(***************************************************************************)
\* GetUserProfileDirectoryW has been called
ProfileStepMade == platform = "windows" /\ Called("GetUserProfileDirectoryW")
\* the exit code of a run that made the profile step, as the outcomes of
\* the steps after it give it: the outcome of the profile step is not
\* among them
ExitOfLaterSteps ==
    IF CalledWith("build_command_line", FALSE) THEN EXIT_GENERAL_FAILURE
    ELSE IF CalledWith("CreateProcessAsUserW", FALSE) THEN EXIT_PROCESS_FAILURE
    ELSE IF ~waitForChild THEN EXIT_SUCCESS_CODE
    ELSE IF CalledWith("GetExitCodeProcess", TRUE) THEN process.code
    ELSE EXIT_GENERAL_FAILURE

\* C22: on windows, when the profile directory is not resolved the program
\* goes on: it builds the command line and, when that succeeds, calls
\* CreateProcessAsUserW with no working directory; and the exit code of
\* every run that made the profile step is given by the outcomes of the
\* steps after it alone, so it is the same whether the profile directory
\* resolved or not
C22_ProfileDirectoryBestEffort ==
    /\ (platform = "windows" /\ CalledWith("GetUserProfileDirectoryW", FALSE)) =>
          /\ profileDir = <<>> /\ lpCurrentDirectory = <<>>
          /\ pc \in {"cleanup", "done"} => Called("build_command_line")
          /\ (CalledWith("build_command_line", TRUE) /\ pc # "create") =>
                Called("CreateProcessAsUserW")
    /\ (platform = "windows" /\ CalledWith("GetUserProfileDirectoryW", TRUE)) =>
          lpCurrentDirectory = <<PROFILE_DIR>>
    /\ (ProfileStepMade /\ pc = "done") => rc = <<ExitOfLaterSteps>>

\* the profile directory was not resolved, the process was created with no
\* working directory, waited for, and its exit code 7 returned
C22_Witness ==
    /\ platform = "windows" /\ CalledWith("GetUserProfileDirectoryW", FALSE)
    /\ ProcessCreated /\ lpCurrentDirectory = <<>>
    /\ waitForChild /\ pc = "done" /\ rc = <<7>>

(***************************************************************************)
(* Root as the console user (macos/main.c lines 188-205, 256-294).         *)
(***************************************************************************)
\* a macos run without --session whose console user, resolved by getpwuid,
\* has uid 0
RootIsConsoleUser ==
    /\ platform = "macos" /\ ~flag_session
    /\ CalledWith("getpwuid", TRUE) /\ uid = ROOT

\* C23: on macos without --session, when the resolved console user has uid
\* 0 the run never forks and never calls execvp; it is in drop_privileges
\* or has returned 3; and when the drop step setuid(0) succeeded, the
\* reacquisition check setuid(0) succeeds too and the run returns 3
C23_RootConsoleUser ==
    RootIsConsoleUser =>
        /\ pc \in {"initgroups", "setgid", "setuid", "verify", "done"}
        /\ ~Called("execvp") /\ ~Called("fork") /\ ~Called("setenv")
        /\ exec_argv = <<>> /\ child = NoChild
        /\ (pc = "done") => rc = <<EXIT_PRIV_DROP>>
        /\ (CalledWith("setuid", TRUE) /\ pc = "done") =>
              CalledWith("setuid(0)", TRUE)
        /\ ~CalledWith("setuid(0)", FALSE)

\* root is the console user, the three drop steps succeeded, the check
\* regained root and the run returned 3
C23_Witness ==
    /\ RootIsConsoleUser /\ cf_user = "root"
    /\ CalledWith("initgroups", TRUE) /\ CalledWith("setgid", TRUE)
    /\ CalledWith("setuid", TRUE) /\ CalledWith("setuid(0)", TRUE)
    /\ cred.uid = ROOT
    /\ pc = "done" /\ rc = <<EXIT_PRIV_DROP>>

(***************************************************************************)
(* The two passes of build_command_line (windows/main.c lines 143-243).    *)
(***************************************************************************)
\* the positions the second pass writes: the characters of the string and
\* the terminating null (line 241)
SecondPassWritten == Len(cmdLine[1]) + 1

\* C24: for every argument vector, the second pass of build_command_line
\* writes, the terminating null included, exactly totalLen positions, the
\* length the first pass computed for the buffer: it writes neither past
\* the buffer's end nor short of it
C24_PassesAgree ==
    (platform = "codec" /\ pc = "built") =>
        SecondPassWritten = totalLen(argv)

\* an argument with a backslash before a quote and one that ends in a
\* backslash after a blank: 12 characters and the null
C24_Witness ==
    /\ platform = "codec" /\ pc = "built"
    /\ argv = <<<<BS, DQ>>, <<SP, BS>>>>
    /\ totalLen(argv) = 13
    /\ SecondPassWritten = 13

====
